---- MODULE Spec2Model ----
(***************************************************************************)
(* Model of the NETCONF reply verification engine of                       *)
(* genie.libs.sdk.triggers.pipeline.rpcverify (class RpcVerify).           *)
(*                                                                         *)
(* Strings are sequences of tokens; a token is a TLA+ string standing for  *)
(* a run of characters.  Digits, ":", "/", "-", "," , "." and blanks are   *)
(* tokens of their own, a name that begins with the characters "data" has  *)
(* "data" as its first token, so that every character-level operation of   *)
(* the code (split, count, replace, strip, regular expressions) acts on    *)
(* token boundaries.                                                       *)
(*                                                                         *)
(* An XML document is the sequence of its elements in document order.      *)
(* Each element records its local name, its prefix, the namespace          *)
(* declarations written on it, its text, the index of its parent (0 for    *)
(* the root) and whether its line of the expected XML begins with "-".     *)
(*                                                                         *)
(* opfields is the caller's list object, which verify_reply changes in     *)
(* place; given_opfields keeps the list as it was passed.  vlog keeps one  *)
(* record for every iteration of verify_reply's loop and trace the order   *)
(* of the phases of the call.                                              *)
(*                                                                         *)
(* The other operations of the package are checked one call at a time:     *)
(* call holds the name of the operation and its arguments, ret the values  *)
(* it has returned so far, one for every call made.                        *)
(*                                                                         *)
(* cliv is the attribute dictionary of a CliVerify instance and uut the    *)
(* state of the device under test; both are empty while the operation      *)
(* checked uses neither.                                                   *)
(***************************************************************************)
EXTENDS Integers, Sequences, FiniteSets, TLC

VARIABLES resp_xml, expect_xml, with_defaults, opfields, given_opfields,
          pc, result, response, expected,
          should_be_missing, missing_tags, wrong_values, missing_ns,
          extra_tags, vlog, trace,
          call, ret, cliv, uut

\* The state of a call of parse_rpc_expected
rpcvars == <<resp_xml, expect_xml, with_defaults, opfields, given_opfields,
             pc, result, response, expected,
             should_be_missing, missing_tags, wrong_values, missing_ns,
             extra_tags, vlog, trace>>

\* The objects outside the call
objvars == <<cliv, uut>>

vars == <<rpcvars, call, ret, objvars>>

NoObjects == cliv = <<>> /\ uut = <<>>

-----------------------------------------------------------------------------
(* Bounds of the checked input sets. *)

MaxKids == 2

MaxFields == 2

-----------------------------------------------------------------------------
(* Sequence helpers (Python list and str primitives). *)

NETCONF_NAMESPACE == "urn:ietf:params:xml:ns:netconf:base:1.0"

Last(s) == s[Len(s)]

\* list.remove(x): drop the first element equal to x.
RECURSIVE RemoveFirst(_, _)
RemoveFirst(s, x) ==
    IF s = <<>> THEN <<>>
    ELSE IF Head(s) = x THEN Tail(s)
    ELSE <<Head(s)>> \o RemoveFirst(Tail(s), x)

\* str.count(tok)
RECURSIVE Count(_, _)
Count(s, tok) ==
    IF s = <<>> THEN 0
    ELSE (IF Head(s) = tok THEN 1 ELSE 0) + Count(Tail(s), tok)

\* index of the first occurrence of tok in s, 0 when there is none
RECURSIVE IndexFrom(_, _, _)
IndexFrom(s, tok, i) ==
    IF i > Len(s) THEN 0
    ELSE IF s[i] = tok THEN i
    ELSE IndexFrom(s, tok, i + 1)

IndexOf(s, tok) == IndexFrom(s, tok, 1)

\* s.split(tok)[0] and s.split(tok)[1] for a string with exactly one tok
SplitBefore(s, tok) == SubSeq(s, 1, IndexOf(s, tok) - 1)
SplitAfter(s, tok) == SubSeq(s, IndexOf(s, tok) + 1, Len(s))

IsPrefix(p, s) == Len(p) <= Len(s) /\ SubSeq(s, 1, Len(p)) = p

\* str.replace(pat, ''): every non-overlapping occurrence, left to right
RECURSIVE ReplaceAll(_, _)
ReplaceAll(s, pat) ==
    IF s = <<>> THEN <<>>
    ELSE IF IsPrefix(pat, s) THEN ReplaceAll(SubSeq(s, Len(pat) + 1, Len(s)), pat)
    ELSE <<Head(s)>> \o ReplaceAll(Tail(s), pat)

Whitespace == {" ", "\n"}

RECURSIVE LStrip(_)
LStrip(s) ==
    IF s # <<>> /\ Head(s) \in Whitespace THEN LStrip(Tail(s)) ELSE s

RECURSIVE RStrip(_)
RStrip(s) ==
    IF s # <<>> /\ Last(s) \in Whitespace
    THEN RStrip(SubSeq(s, 1, Len(s) - 1)) ELSE s

\* str.strip()
Strip(s) == RStrip(LStrip(s))

-----------------------------------------------------------------------------
(* lxml element accessors over a document. *)

\* el.nsmap as a set of <<prefix, uri>> pairs; the default namespace has the
\* prefix "" (lxml's None key, which no prefix of a value is equal to).
RECURSIVE NsMap(_, _)
Override(inherited, own) ==
    own \cup {pr \in inherited : \A o \in own : o[1] # pr[1]}

NsMap(doc, i) ==
    IF i = 0 THEN {} ELSE Override(NsMap(doc, doc[i].parent), doc[i].decl)

NsKeys(doc, i) == {pr[1] : pr \in NsMap(doc, i)}
NsValues(doc, i) == {pr[2] : pr \in NsMap(doc, i)}

\* The namespace URI an element's own prefix resolves to ("" when unbound).
AnyUri(hit) == IF hit = {} THEN "" ELSE (CHOOSE pr \in hit : TRUE)[2]

NsOf(doc, i) == AnyUri({pr \in NsMap(doc, i) : pr[1] = doc[i].pfx})

\* el.tag: the namespace-qualified name
Tag(doc, i) == <<NsOf(doc, i), doc[i].name>>

\* et.QName(el).localname
LocalName(doc, i) == doc[i].name

\* "/" + localname of every ancestor and of the element, root first
RECURSIVE FullPath(_, _)
FullPath(doc, i) ==
    IF i = 0 THEN <<>>
    ELSE FullPath(doc, doc[i].parent) \o <<"/">> \o doc[i].name

-----------------------------------------------------------------------------
(* RpcVerify._process_values *)

\* el.text and el.text.strip(), <<>> standing for None; i = 0 stands for an
\* argument that is not an element.
ElementValue(doc, i) == IF i # 0 THEN Strip(doc[i].text) ELSE <<>>

\* The result dict with its value entries; a key that is absent from the
\* Python dict is a FALSE flag here (no_values, match, has_reply_val,
\* has_expect_val).
ValueBase(reply_val, expect_val) ==
    [no_values |-> FALSE, match |-> FALSE,
     has_reply_val |-> reply_val # <<>>, reply_val |-> reply_val,
     has_expect_val |-> expect_val # <<>>, expect_val |-> expect_val,
     reply_prefix |-> <<>>, expect_prefix |-> <<>>]

\* reply_pfx in reply.nsmap.keys()
PrefixBound(doc, i, reply_pfx) ==
    \E k \in NsKeys(doc, i) : k # "" /\ reply_pfx = <<k>>

\* Both values have one ":" and the reply's prefix is bound: the values are
\* kept without their prefixes and match when they are then equal.
PrefixState(reply_val, expect_val) ==
    [ValueBase(SplitAfter(reply_val, ":"), SplitAfter(expect_val, ":"))
       EXCEPT !.has_reply_val = TRUE,
              !.has_expect_val = TRUE,
              !.reply_prefix = SplitBefore(reply_val, ":"),
              !.expect_prefix = SplitBefore(expect_val, ":"),
              !.match = (SplitAfter(reply_val, ":") = SplitAfter(expect_val, ":"))]

ValueState(rdoc, r, reply_val, expect_val) ==
    IF reply_val = <<>> /\ expect_val = <<>>
    THEN [ValueBase(reply_val, expect_val) EXCEPT !.no_values = TRUE]
    ELSE IF reply_val # <<>> /\ expect_val # <<>> /\ reply_val # expect_val
    THEN IF /\ Count(reply_val, ":") = 1 /\ Count(expect_val, ":") = 1
            /\ PrefixBound(rdoc, r, SplitBefore(reply_val, ":"))
         THEN PrefixState(reply_val, expect_val)
         ELSE ValueBase(reply_val, expect_val)
    ELSE [ValueBase(reply_val, expect_val) EXCEPT !.match = TRUE]

\* _process_values(reply, expect): the value state of the reply element r of
\* rdoc and the expected element e of edoc.
ProcessValues(rdoc, r, edoc, e) ==
    ValueState(rdoc, r, ElementValue(rdoc, r), ElementValue(edoc, e))

-----------------------------------------------------------------------------
(* RpcVerify.process_rpc_reply and the expected-XML walk *)

RpcReplyName == <<"rpc-reply">>
DataName == <<"data">>
EnvelopePath == <<"/", "rpc-reply", "/", "data">>

\* What et.fromstring accepts: a root element, every prefix bound.
WellFormed(doc) ==
    /\ doc # <<>>
    /\ \A i \in 1..Len(doc) :
          doc[i].pfx = "" \/ doc[i].pfx \in NsKeys(doc, i)

\* ''.join(reversed(xpath)).replace('/rpc-reply/data', '')
ReplyXPath(doc, i) == ReplaceAll(FullPath(doc, i), EnvelopePath)

\* re.sub(r'^/rpc-reply/data|^/data', '', ''.join(reversed(xpath)))
StripEnvelope(p) ==
    IF IsPrefix(EnvelopePath, p) THEN SubSeq(p, 5, Len(p))
    ELSE IF IsPrefix(<<"/", "data">>, p) THEN SubSeq(p, 3, Len(p))
    ELSE p

ExpectXPath(doc, i) == StripEnvelope(FullPath(doc, i))

\* for el in resp.iter(): the (element, xpath) list of the reply
RECURSIVE ReplyWalk(_, _, _)
ReplyWalk(doc, i, acc) ==
    IF i > Len(doc) THEN acc
    ELSE IF LocalName(doc, i) = RpcReplyName THEN ReplyWalk(doc, i + 1, acc)
    ELSE IF acc = <<>> /\ LocalName(doc, i) = DataName
         THEN ReplyWalk(doc, i + 1, acc)
    ELSE ReplyWalk(doc, i + 1,
                   Append(acc, [el |-> i, xpath |-> ReplyXPath(doc, i)]))

\* process_rpc_reply of a str: ok = FALSE is the returned False; raised is
\* the IndexError of resp[0] in the message about a root that is not
\* rpc-reply, when that root has no child.
ProcessRpcReply(doc) ==
    IF doc = <<>> THEN [ok |-> FALSE, raised |-> FALSE, list |-> <<>>]
    ELSE IF ~WellFormed(doc)
    THEN [ok |-> FALSE, raised |-> FALSE, list |-> <<>>]
    ELSE IF LocalName(doc, 1) # RpcReplyName
    THEN [ok |-> FALSE, raised |-> Len(doc) = 1, list |-> <<>>]
    ELSE [ok |-> TRUE, raised |-> FALSE, list |-> ReplyWalk(doc, 1, <<>>)]

\* The attribute expected="false" that the preprocessing writes on an element
\* whose line begins with "-".
ExpectedFalse(doc, i) == doc[i].minus

\* for el in expect.iter(): the (element, xpath) list of the expected XML
RECURSIVE ExpectWalk(_, _, _)
ExpectWalk(doc, i, acc) ==
    IF i > Len(doc) THEN acc
    ELSE IF LocalName(doc, i) = RpcReplyName THEN ExpectWalk(doc, i + 1, acc)
    ELSE IF acc = <<>> /\ LocalName(doc, i) = DataName
         THEN ExpectWalk(doc, i + 1, acc)
    ELSE ExpectWalk(doc, i + 1,
                    Append(acc, [el |-> i, xpath |-> ExpectXPath(doc, i)]))

\* A collapse that looks at the size of the list only.
CollapseBySize(doc, exp, wd) ==
    IF "explicit" \in wd /\ Len(exp) < 2 THEN <<>> ELSE exp

\* The expectation collapses to "no data expected" under explicit.
CollapseExpected(doc, exp, wd) ==
    IF "explicit" \in wd /\ Len(exp) < 2 THEN <<>>
    ELSE IF exp # <<>> /\ "explicit" \in wd /\ ExpectedFalse(doc, exp[2].el)
         THEN <<>>
    ELSE exp

\* Early returns without the failure "Expected no data in rpc-reply".
EarlyReturnLenient(exp, fields, resp) ==
    IF (exp # <<>> \/ fields # <<>>) /\ resp = <<>> THEN "false"
    ELSE IF exp = <<>> /\ fields = <<>> THEN "true"
    ELSE "go"

\* The returns of parse_rpc_expected before the two checks run:
\* "false", "true", or "go" when it goes on to process_expect_reply.
EarlyReturn(exp, fields, resp) ==
    IF (exp # <<>> \/ fields # <<>>) /\ resp = <<>> THEN "false"
    ELSE IF exp = <<>> /\ fields = <<>> /\ resp = <<>> THEN "true"
    ELSE IF exp = <<>> /\ fields = <<>> /\ resp # <<>> THEN "false"
    ELSE "go"

-----------------------------------------------------------------------------
(* RpcVerify.process_expect_reply *)

StructMatch(rdoc, r, edoc, e) ==
    Tag(rdoc, r.el) = Tag(edoc, e.el) /\ r.xpath = e.xpath

\* What a structural match adds under the with-defaults modes: "break" (a
\* line, and the inner loop ends), "line" (a line, the loop goes on) or
\* "pass" (nothing).
AbsentVerdict(value_state, wd) ==
    IF "explicit" \in wd THEN "break"
    ELSE IF "report-all" \in wd
    THEN IF ~value_state.match THEN "pass" ELSE "break"
    ELSE IF value_state.match \/ value_state.no_values THEN "line"
    ELSE "pass"

AbsentAt(rdoc, r, edoc, u, wd) ==
    IF StructMatch(rdoc, r, edoc, u)
    THEN AbsentVerdict(ProcessValues(rdoc, r.el, edoc, u.el), wd)
    ELSE "pass"

\* The inner loop over the unexpected elements for one reply element: the
\* lines it adds to should_be_missing (the reply element, once per line).
RECURSIVE AbsentInner(_, _, _, _, _, _)
AbsentFrom(rdoc, r, edoc, unexp, k, wd, verdict) ==
    IF verdict = "break" THEN <<r.el>>
    ELSE IF verdict = "line"
    THEN <<r.el>> \o AbsentInner(rdoc, r, edoc, unexp, k + 1, wd)
    ELSE AbsentInner(rdoc, r, edoc, unexp, k + 1, wd)

AbsentInner(rdoc, r, edoc, unexp, k, wd) ==
    IF k > Len(unexp) THEN <<>>
    ELSE AbsentFrom(rdoc, r, edoc, unexp, k, wd,
                    AbsentAt(rdoc, r, edoc, unexp[k], wd))

RECURSIVE AbsentOuter(_, _, _, _, _, _)
AbsentOuter(rdoc, resp, i, edoc, unexp, wd) ==
    IF i > Len(resp) THEN <<>>
    ELSE AbsentInner(rdoc, resp[i], edoc, unexp, 1, wd)
           \o AbsentOuter(rdoc, resp, i + 1, edoc, unexp, wd)

Unexpected(edoc, exp) == SelectSeq(exp, LAMBDA x : ExpectedFalse(edoc, x.el))
Present(edoc, exp) == SelectSeq(exp, LAMBDA x : ~ExpectedFalse(edoc, x.el))

ExpectReplyResult(edoc, exp, reported) ==
    [result |-> (reported = <<>>),
     expected |-> Present(edoc, exp),
     should_be_missing |-> reported]

\* process_expect_reply(response, expected)
ProcessExpectReply(rdoc, resp, edoc, exp, wd) ==
    ExpectReplyResult(edoc, exp,
        AbsentOuter(rdoc, resp, 1, edoc, Unexpected(edoc, exp), wd))

-----------------------------------------------------------------------------
(* RpcVerify.check_opfield *)

Digits == {"0", "1", "2", "3", "4", "5", "6", "7", "8", "9"}

DigitVal(d) ==
    CASE d = "0" -> 0 [] d = "1" -> 1 [] d = "2" -> 2 [] d = "3" -> 3
      [] d = "4" -> 4 [] d = "5" -> 5 [] d = "6" -> 6 [] d = "7" -> 7
      [] d = "8" -> 8 [] d = "9" -> 9

AllDigits(s) == \A i \in 1..Len(s) : s[i] \in Digits

\* str.isnumeric()
IsNumeric(s) == s # <<>> /\ AllDigits(s)

RECURSIVE IntOf(_)
IntOf(s) ==
    IF s = <<>> THEN 0
    ELSE 10 * IntOf(SubSeq(s, 1, Len(s) - 1)) + DigitVal(Last(s))

RECURSIVE Pow10(_)
Pow10(n) == IF n = 0 THEN 1 ELSE 10 * Pow10(n - 1)

\* float(s) for the decimal literals [sign] digits [ "." [digits] ] and
\* [sign] "." digits, blanks around them stripped: ok = FALSE is ValueError,
\* the value is num / 10^scale.
FloatParts(negative, whole, frac) ==
    IF AllDigits(whole) /\ AllDigits(frac) /\ Len(whole) + Len(frac) > 0
    THEN [ok |-> TRUE,
          num |-> IF negative THEN 0 - IntOf(whole \o frac)
                  ELSE IntOf(whole \o frac),
          scale |-> Len(frac)]
    ELSE [ok |-> FALSE, num |-> 0, scale |-> 0]

FloatBody(negative, body, dot) ==
    IF dot = 0 THEN FloatParts(negative, body, <<>>)
    ELSE FloatParts(negative, SubSeq(body, 1, dot - 1),
                    SubSeq(body, dot + 1, Len(body)))

FloatUnsigned(negative, body) == FloatBody(negative, body, IndexOf(body, "."))

FloatStripped(t) ==
    IF t # <<>> /\ Head(t) \in {"-", "+"}
    THEN FloatUnsigned(Head(t) = "-", Tail(t))
    ELSE FloatUnsigned(FALSE, t)

FloatOf(s) == FloatStripped(Strip(s))

FloatLeq(a, b) == a.num * Pow10(b.scale) <= b.num * Pow10(a.scale)
FloatEq(a, b) == a.num * Pow10(b.scale) = b.num * Pow10(a.scale)

\* The order of the tokens by their first character's code point; a token of
\* several characters is ordered as its first character, which orders two
\* strings as Python does when no token is a proper prefix of another.
CharOrder ==
    <<"\n", " ", "+", ",", "-", ".", "/", "0", "1", "2", "3", "4", "5", "6",
      "7", "8", "9", ":", "a", "bar", "data", "empty", "foo", "p", "q",
      "rpc-reply", "top", "up", "z">>

Rank(tok) == IndexOf(CharOrder, tok)

\* str < str
RECURSIVE StrLess(_, _)
StrLess(s, t) ==
    IF t = <<>> THEN FALSE
    ELSE IF s = <<>> THEN TRUE
    ELSE IF Head(s) = Head(t) THEN StrLess(Tail(s), Tail(t))
    ELSE Rank(Head(s)) < Rank(Head(t))

OpOnOrder(op, lt, eq) ==
    CASE op = "==" -> eq
      [] op = "!=" -> ~eq
      [] op = ">=" -> ~lt
      [] op = "<=" -> lt \/ eq
      [] op = ">" -> ~lt /\ ~eq
      [] op = "<" -> lt
      [] OTHER -> FALSE

\* An int literal Python's eval rejects: leading zeros on a number that is
\* not zero.
BadIntLiteral(s) ==
    Len(s) > 1 /\ Head(s) = "0" /\ \E i \in 1..Len(s) : s[i] # "0"

\* s.split(tok) as a sequence of parts
RECURSIVE SplitOn(_, _)
SplitAt(s, tok, k) ==
    IF k = 0 THEN <<s>>
    ELSE <<SubSeq(s, 1, k - 1)>> \o SplitOn(SubSeq(s, k + 1, Len(s)), tok)

SplitOn(s, tok) == SplitAt(s, tok, IndexOf(s, tok))

\* index of the first blank of t, Len(t) + 1 when it has none
RECURSIVE BlankAt(_)
BlankAt(t) ==
    IF t = <<>> THEN 1
    ELSE IF Head(t) \in Whitespace THEN 1
    ELSE 1 + BlankAt(Tail(t))

\* s.split(): the runs between blanks
RECURSIVE SplitBlank(_)
SplitRun(t, k) ==
    IF t = <<>> THEN <<>>
    ELSE <<SubSeq(t, 1, k - 1)>> \o SplitBlank(SubSeq(t, k, Len(t)))

SplitRuns(t) == SplitRun(t, BlankAt(t))

SplitBlank(s) == SplitRuns(LStrip(s))

\* The two ends of a range value; <<>> when r1 and r2 stay None.
RangePick(v, by_comma, by_blank) ==
    IF Len(by_comma) = 2 THEN by_comma
    ELSE IF Len(by_blank) = 2 THEN by_blank
    ELSE IF Count(v, "-") = 1 THEN SplitOn(v, "-")
    ELSE <<>>

RangeEnds(v) == RangePick(v, SplitOn(v, ","), SplitBlank(v))

RangeIn(v, r1, r2) ==
    r1.ok /\ r2.ok /\ FloatLeq(r1, v) /\ FloatLeq(v, r2)

RangeCheck(v, ends) ==
    IF ~v.ok THEN FALSE
    ELSE IF ends = <<>> THEN FALSE
    ELSE RangeIn(v, FloatOf(ends[1]), FloatOf(ends[2]))

\* The branch field['op'] == 'range'
CheckRange(value, field) ==
    RangeCheck(FloatOf(value), RangeEnds(field.value))

CompareInt(v, f, op, a, b) ==
    IF BadIntLiteral(v) \/ BadIntLiteral(f) THEN FALSE
    ELSE OpOnOrder(op, a < b, a = b)

CompareText(v, f, op, v1, v2) ==
    IF v1.ok /\ v2.ok
    THEN OpOnOrder(op, FloatLeq(v1, v2) /\ ~FloatEq(v1, v2), FloatEq(v1, v2))
    ELSE OpOnOrder(op, StrLess(v, f), v = f)

Compare(v, f, op, v_numeric, f_numeric) ==
    IF (v_numeric /\ ~f_numeric) \/ (f_numeric /\ ~v_numeric) THEN FALSE
    ELSE IF v_numeric THEN CompareInt(v, f, op, IntOf(v), IntOf(f))
    ELSE CompareText(v, f, op, FloatOf(v), FloatOf(f))

\* The branch of the other operators
CheckCompare(value, field) ==
    Compare(value, field.value, field.op,
            IsNumeric(value), IsNumeric(field.value))

\* check_opfield(value, field): TRUE or FALSE, an exception of the
\* evaluation being caught and turned into FALSE.
CheckOpfield(value, field) ==
    IF field.op = "range" THEN CheckRange(value, field)
    ELSE CheckCompare(value, field)

-----------------------------------------------------------------------------
(* RpcVerify.verify_reply *)

\* 'xpath' in field and reply_xpath == field['xpath'] and
\* et.QName(reply).localname == field['name']
XPathMatch(field, reply_xpath, localname) ==
    field.xpath = reply_xpath /\ localname = field.name

\* A positional match that takes any field.
SeqMatchAny(field, seq) == TRUE

\* value_sequence_number == int(field['id'])
SeqMatch(field, seq) == seq = field.id

\* check_opfield on the field, then opfields.remove(field) and break
Checked(fields, field, reply_val) ==
    [fields |-> RemoveFirst(fields, field),
     outcome |-> IF CheckOpfield(reply_val, field) THEN "pass" ELSE "fail",
     used |-> <<field>>]

\* for field in opfields: Python's list iterator keeps an index, so removing a
\* field while iterating skips the field that follows it.  outcome is "pass"
\* or "fail" (check_opfield of the field in used), "none" (the loop ended
\* without a break) or "raise" (KeyError: 'id').
RECURSIVE FieldLoop(_, _, _, _, _, _)
FieldLoop(fields, k, reply_xpath, localname, reply_val, seq) ==
    IF k > Len(fields)
    THEN [fields |-> fields, outcome |-> "none", used |-> <<>>]
    ELSE IF ~fields[k].selected
    THEN FieldLoop(RemoveFirst(fields, fields[k]), k + 1,
                   reply_xpath, localname, reply_val, seq)
    ELSE IF XPathMatch(fields[k], reply_xpath, localname)
    THEN Checked(fields, fields[k], reply_val)
    ELSE IF ~fields[k].has_id
    THEN [fields |-> fields, outcome |-> "raise", used |-> <<>>]
    ELSE IF SeqMatch(fields[k], seq)
    THEN Checked(fields, fields[k], reply_val)
    ELSE FieldLoop(fields, k + 1, reply_xpath, localname, reply_val, seq)

\* The first pending reply with the tag and the xpath of e; 0 is the for-else.
MinOrZero(S) == IF S = {} THEN 0 ELSE CHOOSE k \in S : \A j \in S : k <= j

FindReply(rdoc, resp, edoc, e) ==
    MinOrZero({k \in 1..Len(resp) : StructMatch(rdoc, resp[k], edoc, e)})

\* The namespaces of the reply element that are neither NETCONF's nor in
\* ns_set.
MissingNamespaces(rdoc, r, ns_set) ==
    {ns \in NsValues(rdoc, r) : ns # NETCONF_NAMESPACE /\ ns \notin ns_set}

\* The unmatched branch of the value check: wrong value unless the state is
\* match.
WrongValue(value_state) == ~value_state.match

\* The record of one iteration in vlog: the expected element, the reply
\* element found for it (0: none), what the iteration did, the pending
\* opfields and the sequence number it started with, the opfield it used.
Logged(st, e, r, outcome, pending, seq, used) ==
    [st EXCEPT !.vlog = Append(@, [expect |-> e, reply |-> r,
                                   outcome |-> outcome, pending |-> pending,
                                   seq |-> seq, used |-> used])]

\* for-else: missing_tags += expect.tag; result = False; continue
StepMissing(st, e) ==
    Logged([st EXCEPT !.missing_tags = Append(@, e), !.result = FALSE],
           e, 0, "missing", st.opfields, st.seq, <<>>)

\* The opfields branch, fl being the outcome of the loop over the fields.
StepFields(st, e, r, fl) ==
    IF fl.outcome = "raise"
    THEN Logged([st EXCEPT !.raised = TRUE], e, r.el, "raise",
                st.opfields, st.seq, <<>>)
    ELSE Logged([st EXCEPT !.opfields = fl.fields,
                           !.seq = @ + 1,
                           !.result = IF fl.outcome = "fail" THEN FALSE ELSE @,
                           !.response = RemoveFirst(@, r)],
                e, r.el, IF fl.outcome = "none" THEN "skipped" ELSE fl.outcome,
                st.opfields, st.seq, fl.used)

\* The value check of the reply element r found for the expected element e.
StepValue(rdoc, st, e, r, value_state) ==
    IF value_state.no_values
    THEN Logged([st EXCEPT !.response = RemoveFirst(@, r)],
                e, r.el, "container", st.opfields, st.seq, <<>>)
    ELSE IF st.opfields # <<>> /\ value_state.has_reply_val
    THEN StepFields(st, e, r,
                    FieldLoop(st.opfields, 1, r.xpath, LocalName(rdoc, r.el),
                              value_state.reply_val, st.seq))
    ELSE IF WrongValue(value_state)
    THEN Logged([st EXCEPT !.wrong_values = Append(@, e),
                           !.result = FALSE,
                           !.response = RemoveFirst(@, r)],
                e, r.el, "wrong", st.opfields, st.seq, <<>>)
    ELSE Logged([st EXCEPT !.response = RemoveFirst(@, r)],
                e, r.el, "equal", st.opfields, st.seq, <<>>)

\* The namespace check: ns_set has taken the namespaces of the expected
\* element, bad are the reply's namespaces missing from it.
StepNamespaces(st, e, ns_set, bad) ==
    [st EXCEPT !.ns_set = ns_set,
               !.missing_ns = @ \cup {<<e, ns>> : ns \in bad},
               !.result = IF bad # {} THEN FALSE ELSE @]

StepFound(rdoc, edoc, e, r, st, ns_set) ==
    StepValue(rdoc,
              StepNamespaces(st, e.el, ns_set,
                             MissingNamespaces(rdoc, r.el, ns_set)),
              e.el, r, ProcessValues(rdoc, r.el, edoc, e.el))

StepAt(rdoc, edoc, e, st, k) ==
    IF k = 0 THEN StepMissing(st, e.el)
    ELSE StepFound(rdoc, edoc, e, st.response[k], st,
                   st.ns_set \cup NsValues(edoc, e.el))

\* One iteration of "for expect, xpath in expected" on the state st.
VerifyStep(rdoc, edoc, e, st) ==
    StepAt(rdoc, edoc, e, st, FindReply(rdoc, st.response, edoc, e))

RECURSIVE VerifyWalk(_, _, _, _, _)
VerifyWalk(rdoc, edoc, exp, j, st) ==
    IF j > Len(exp) \/ st.raised THEN st
    ELSE VerifyWalk(rdoc, edoc, exp, j + 1, VerifyStep(rdoc, edoc, exp[j], st))

\* if len(response) and 'explicit' in self.with_defaults
ExtraTags(resp, wd) ==
    IF Len(resp) > 0 /\ "explicit" \in wd
    THEN [i \in 1..Len(resp) |-> resp[i].el]
    ELSE <<>>

VerifyInit(resp, fields) ==
    [result |-> TRUE, response |-> resp, opfields |-> fields,
     seq |-> 0, ns_set |-> {}, missing_tags |-> <<>>,
     missing_ns |-> {}, wrong_values |-> <<>>, vlog |-> <<>>,
     raised |-> FALSE, extra_tags |-> <<>>]

VerifyEnd(st, extra) ==
    IF st.raised THEN st
    ELSE [st EXCEPT !.extra_tags = extra,
                    !.result = IF extra # <<>> THEN FALSE ELSE @]

VerifyExtra(st, wd) == VerifyEnd(st, ExtraTags(st.response, wd))

\* verify_reply(response, expected, opfields): the state at its return, or at
\* the exception that leaves it (raised).
VerifyReply(rdoc, resp, edoc, exp, fields, wd) ==
    VerifyExtra(VerifyWalk(rdoc, edoc, exp, 1, VerifyInit(resp, fields)), wd)

-----------------------------------------------------------------------------
(* The checked inputs: documents, capabilities and opfields. *)

N1 == "http://rpcverify.com"
N2 == "http://cisco.com/ns/yang/cisco-nx-os-device"
N3 == "http://cisco.com/ns/yang/Cisco-IOS-XE-bgp"

TopName == <<"top">>
Foo == <<"foo">>
Bar == <<"bar">>
PFoo == <<"p", ":", "foo">>
QFoo == <<"q", ":", "foo">>
Blank == <<" ">>

EnvReplyData ==
    <<[name |-> RpcReplyName, pfx |-> "", decl |-> {<<"", NETCONF_NAMESPACE>>}],
      [name |-> DataName, pfx |-> "", decl |-> {}]>>
EnvReply ==
    <<[name |-> RpcReplyName, pfx |-> "", decl |-> {<<"", NETCONF_NAMESPACE>>}]>>
EnvNcReplyData ==
    <<[name |-> RpcReplyName, pfx |-> "nc", decl |-> {<<"nc", NETCONF_NAMESPACE>>}],
      [name |-> DataName, pfx |-> "nc", decl |-> {}]>>
EnvData == <<[name |-> DataName, pfx |-> "", decl |-> {}]>>
EnvNone == <<>>

\* The document: the envelope elements nested in one another, then (tops is
\* <<>> or one element) the top container inside the innermost envelope
\* element, then the kids inside the top container.
MkNodes(env, tops, kids, ne, n) ==
    [i \in 1..n |->
       IF i <= ne
       THEN [name |-> env[i].name, pfx |-> env[i].pfx, decl |-> env[i].decl,
             text |-> <<>>, parent |-> i - 1, minus |-> FALSE]
       ELSE IF i = ne + 1
       THEN [name |-> TopName, pfx |-> "", decl |-> tops[1].decl,
             text |-> <<>>, parent |-> ne, minus |-> tops[1].minus]
       ELSE [name |-> kids[i - ne - 1].name, pfx |-> "", decl |-> {},
             text |-> kids[i - ne - 1].text, parent |-> ne + 1,
             minus |-> kids[i - ne - 1].minus]]

MkDoc(env, tops, kids) ==
    MkNodes(env, tops, kids, Len(env),
            Len(env) + (IF tops = <<>> THEN 0 ELSE 1 + Len(kids)))

SeqsUpTo(S, n) == UNION {[1..k -> S] : k \in 0..n}

KidsOf(names, texts, marks) ==
    SeqsUpTo([name : names, text : texts, minus : marks], MaxKids)

TopsOf(decls, marks) == {<<t>> : t \in [decl : decls, minus : marks]}

DocsOf(envs, tops, kids) ==
    {MkDoc(env, t, k) : env \in envs, t \in tops, k \in kids}

\* Replies and expectations that differ in structure and in "-" marks.
RepliesA ==
    DocsOf({EnvReplyData, EnvReply}, TopsOf({{<<"", N1>>}}, {FALSE}),
           KidsOf({<<"a">>}, {<<>>, Foo, Bar}, {FALSE}))
      \cup DocsOf({EnvReplyData, EnvReply}, {<<>>}, {<<>>})

ExpectsA ==
    DocsOf({EnvReplyData, EnvData, EnvNone}, TopsOf({{<<"", N1>>}}, BOOLEAN),
           KidsOf({<<"a">>}, {<<>>, Foo}, BOOLEAN))
      \cup DocsOf({EnvReplyData, EnvData, EnvNone}, {<<>>}, {<<>>})

\* Replies and expectations that differ in values, prefixes and namespaces.
RepliesB ==
    DocsOf({EnvReplyData, EnvNcReplyData},
           TopsOf({{<<"", N1>>}, {<<"", N1>>, <<"p", N3>>}}, {FALSE}),
           KidsOf({<<"a">>}, {<<>>, Foo, Bar, PFoo, Blank}, {FALSE}))

ExpectsB ==
    DocsOf({EnvNone}, TopsOf({{<<"", N1>>}, {<<"", N2>>}}, {FALSE}),
           KidsOf({<<"a">>}, {<<>>, Foo, QFoo}, {FALSE}))

\* Replies and expectations checked with opfields.
RepliesC ==
    DocsOf({EnvReplyData}, TopsOf({{<<"", N1>>}}, {FALSE}),
           KidsOf({<<"a">>}, {Foo, Bar}, {FALSE}))

ExpectsC ==
    DocsOf({EnvNone}, TopsOf({{<<"", N1>>}}, {FALSE}),
           KidsOf({<<"a">>}, {<<>>, Foo}, BOOLEAN))

\* Replies whose root is not rpc-reply, and the empty reply text.
RepliesD ==
    DocsOf({EnvData, EnvNone}, TopsOf({{<<"", N1>>}}, {FALSE}) \cup {<<>>},
           KidsOf({<<"a">>}, {Foo}, {FALSE}))

PathA == <<"/", "top", "/", "a">>
PathZ == <<"/", "top", "/", "z">>

Fields ==
    {[name |-> <<"a">>, xpath |-> PathA, value |-> Foo, op |-> "==",
      has_id |-> FALSE, id |-> 0, selected |-> TRUE],
     [name |-> <<"a">>, xpath |-> PathA, value |-> Foo, op |-> "!=",
      has_id |-> FALSE, id |-> 0, selected |-> TRUE],
     [name |-> <<"a">>, xpath |-> PathA, value |-> Foo, op |-> "==",
      has_id |-> FALSE, id |-> 0, selected |-> FALSE],
     [name |-> <<"z">>, xpath |-> PathZ, value |-> Foo, op |-> "==",
      has_id |-> TRUE, id |-> 0, selected |-> TRUE],
     [name |-> <<"z">>, xpath |-> PathZ, value |-> Foo, op |-> "==",
      has_id |-> TRUE, id |-> 1, selected |-> TRUE],
     [name |-> <<"z">>, xpath |-> PathZ, value |-> Foo, op |-> "==",
      has_id |-> FALSE, id |-> 0, selected |-> TRUE]}

FieldLists == SeqsUpTo(Fields, MaxFields) \ {<<>>}

\* self.with_defaults as the set of its entries
Capabilities == SUBSET {"explicit", "report-all"}

-----------------------------------------------------------------------------
(* One call of parse_rpc_expected(resp_xml, expect_xml, opfields). *)

Init ==
    /\ \/ /\ resp_xml \in RepliesA
          /\ expect_xml \in ExpectsA
          /\ opfields = <<>>
       \/ /\ resp_xml \in RepliesB
          /\ expect_xml \in ExpectsB
          /\ opfields = <<>>
       \/ /\ resp_xml \in RepliesC
          /\ expect_xml \in ExpectsC
          /\ opfields \in FieldLists
       \/ /\ resp_xml \in RepliesA \cup RepliesB
          /\ expect_xml = resp_xml
          /\ opfields = <<>>
       \/ /\ resp_xml \in RepliesD
          /\ expect_xml \in ExpectsC
          /\ opfields = <<>>
    /\ given_opfields = opfields
    /\ with_defaults \in Capabilities
    /\ pc = "start"
    /\ result = TRUE
    /\ response = <<>>
    /\ expected = <<>>
    /\ should_be_missing = <<>>
    /\ missing_tags = <<>>
    /\ wrong_values = <<>>
    /\ missing_ns = {}
    /\ extra_tags = <<>>
    /\ vlog = <<>>
    /\ trace = <<>>
    /\ call = [fn |-> "parse_rpc_expected"]
    /\ ret = <<>>
    /\ NoObjects

Return(value) ==
    /\ pc' = "done"
    /\ result' = value

\* The lines after the two parses: the collapse and the early returns, for
\* the reply list and the expected list exp.
Dispatch(reply, exp, early) ==
    /\ response' = reply
    /\ expected' = exp
    /\ IF early = "go"
       THEN pc' = "absence" /\ UNCHANGED result
       ELSE Return(early = "true")

Collapsed(reply, exp) == Dispatch(reply, exp, EarlyReturn(exp, opfields, reply))

Parsed(reply) ==
    IF reply.raised
    THEN pc' = "raised" /\ UNCHANGED <<result, response, expected>>
    ELSE IF ~reply.ok
    THEN Return(FALSE) /\ UNCHANGED <<response, expected>>
    ELSE Collapsed(reply.list,
                   CollapseExpected(expect_xml, ExpectWalk(expect_xml, 1, <<>>),
                                    with_defaults))

\* parse_rpc_expected up to its call of process_expect_reply: the
\* preprocessing, the two parses, the collapse and the early returns.
parse_rpc_expected ==
    /\ UNCHANGED <<call, ret, objvars>>
    /\ pc = "start"
    /\ trace' = Append(trace, "parse_rpc_expected")
    /\ UNCHANGED <<resp_xml, expect_xml, with_defaults, given_opfields,
                   opfields, should_be_missing, missing_tags, wrong_values,
                   missing_ns, extra_tags, vlog>>
    /\ IF opfields = <<>> /\ expect_xml = <<>>
       THEN Return(FALSE) /\ UNCHANGED <<response, expected>>
       ELSE IF resp_xml = <<>>
       THEN Return(FALSE) /\ UNCHANGED <<response, expected>>
       ELSE IF ~WellFormed(expect_xml)
       THEN Return(FALSE) /\ UNCHANGED <<response, expected>>
       ELSE Parsed(ProcessRpcReply(resp_xml))

\* An absence check after which the presence check runs whatever it found.
AbsenceCheckedThrough(per) ==
    /\ result' = per.result
    /\ expected' = per.expected
    /\ should_be_missing' = per.should_be_missing
    /\ pc' = IF per.expected # <<>> /\ response # <<>>
             THEN "presence" ELSE "done"

AbsenceChecked(per) ==
    /\ result' = per.result
    /\ expected' = per.expected
    /\ should_be_missing' = per.should_be_missing
    /\ pc' = IF per.result /\ per.expected # <<>> /\ response # <<>>
             THEN "presence" ELSE "done"

\* result, expected, response = self.process_expect_reply(response, expected)
process_expect_reply ==
    /\ UNCHANGED <<call, ret, objvars>>
    /\ pc = "absence"
    /\ trace' = Append(trace, "process_expect_reply")
    /\ AbsenceChecked(ProcessExpectReply(resp_xml, response, expect_xml,
                                         expected, with_defaults))
    /\ UNCHANGED <<resp_xml, expect_xml, with_defaults, given_opfields,
                   opfields, response, missing_tags, wrong_values, missing_ns,
                   extra_tags, vlog>>

PresenceChecked(vr) ==
    /\ pc' = IF vr.raised THEN "raised" ELSE "done"
    /\ result' = IF vr.raised THEN result ELSE vr.result
    /\ response' = vr.response
    /\ opfields' = vr.opfields
    /\ missing_tags' = vr.missing_tags
    /\ wrong_values' = vr.wrong_values
    /\ missing_ns' = vr.missing_ns
    /\ extra_tags' = vr.extra_tags
    /\ vlog' = vr.vlog

\* result = self.verify_reply(response, expected, opfields); an exception
\* leaves parse_rpc_expected without a result (pc = "raised").
verify_reply ==
    /\ UNCHANGED <<call, ret, objvars>>
    /\ pc = "presence"
    /\ trace' = Append(trace, "verify_reply")
    /\ PresenceChecked(VerifyReply(resp_xml, response, expect_xml, expected,
                                   opfields, with_defaults))
    /\ UNCHANGED <<resp_xml, expect_xml, with_defaults, given_opfields,
                   expected, should_be_missing>>

Next ==
    \/ parse_rpc_expected
    \/ process_expect_reply
    \/ verify_reply

Spec == Init /\ [][Next]_vars

-----------------------------------------------------------------------------
(* The inputs and the outcome of the call, as the properties speak of them. *)

Range(s) == {s[i] : i \in 1..Len(s)}

\* The reply parses and is rooted at rpc-reply; its payload elements.
ReplyOk == ProcessRpcReply(resp_xml).ok
ReplyList == ProcessRpcReply(resp_xml).list

\* The payload elements of the expectation, before any collapse.
ExpectList == ExpectWalk(expect_xml, 1, <<>>)

\* The expectation elements marked absent ("-").
MarkedAbsent == Unexpected(expect_xml, ExpectList)

Returned == pc = "done"
AbsenceRan == Len(trace) >= 2
PresenceRan == Len(trace) = 3

\* The absence check reported the reply element r.
Reported(r) == r.el \in Range(should_be_missing)

\* Both elements carry a value and the values are equal, or equal after a
\* prefix that the reply element binds.
ValuesAgree(r, e) ==
    LET rv == ElementValue(resp_xml, r)
        ev == ElementValue(expect_xml, e)
    IN /\ rv # <<>>
       /\ ev # <<>>
       /\ \/ rv = ev
          \/ /\ Count(rv, ":") = 1
             /\ Count(ev, ":") = 1
             /\ PrefixBound(resp_xml, r, SplitBefore(rv, ":"))
             /\ SplitAfter(rv, ":") = SplitAfter(ev, ":")

BothEmpty(r, e) ==
    ElementValue(resp_xml, r) = <<>> /\ ElementValue(expect_xml, e) = <<>>

\* The values differ: this includes a value on one side only.
ValuesDiffer(r, e) == ~BothEmpty(r, e) /\ ~ValuesAgree(r, e)

\* A field of the list matches the reply element by xpath and name or by the
\* sequence number.
FieldMatches(f, r, seq) ==
    \/ f.xpath = ReplyXPath(resp_xml, r) /\ f.name = LocalName(resp_xml, r)
    \/ f.has_id /\ f.id = seq

\* The expected element j is one more of its tag and xpath than the reply
\* holds: when its turn comes no reply element is left for it.
RankInClass(j) ==
    Cardinality({i \in 1..j :
        /\ Tag(expect_xml, expected[i].el) = Tag(expect_xml, expected[j].el)
        /\ expected[i].xpath = expected[j].xpath})

Matching(j) ==
    Cardinality({k \in 1..Len(ReplyList) :
        StructMatch(resp_xml, ReplyList[k], expect_xml, expected[j])})

Unmatched(j) == RankInClass(j) > Matching(j)

-----------------------------------------------------------------------------
(* The properties. *)

\* C1: for every well-formed rpc-reply document R and every with-defaults
\* setting, parse_rpc_expected(R, R) without opfields returns True.
C1_IdenticalPasses ==
    (Returned /\ ReplyOk /\ expect_xml = resp_xml /\ given_opfields = <<>>)
        => result = TRUE

\* C2: under explicit, parse_rpc_expected returns False whenever some reply
\* element has the tag and the xpath of an expectation element marked absent,
\* whatever the two values are.
C2_ExplicitAbsentFails ==
    (/\ pc \in {"done", "raised"}
     /\ "explicit" \in with_defaults
     /\ ReplyOk
     /\ WellFormed(expect_xml)
     /\ \E k \in 1..Len(ReplyList) : \E u \in Range(MarkedAbsent) :
           StructMatch(resp_xml, ReplyList[k], expect_xml, u))
        => (Returned /\ result = FALSE)

\* C3: under report-all without explicit, process_expect_reply reports a reply
\* element with the tag and xpath of an absent-marked element if and only if
\* the value state of the pair is match, its result is False exactly when it
\* reports one, and a structural match whose values differ is tolerated: every
\* reported element has an absent-marked counterpart whose value does not
\* differ from its own.
C3_ReportAllAbsence ==
    (AbsenceRan /\ "report-all" \in with_defaults
                /\ "explicit" \notin with_defaults)
        => /\ \A k \in 1..Len(ReplyList) :
                Reported(ReplyList[k]) <=>
                   \E u \in Range(MarkedAbsent) :
                      /\ StructMatch(resp_xml, ReplyList[k], expect_xml, u)
                      /\ ProcessValues(resp_xml, ReplyList[k].el,
                                       expect_xml, u.el).match
           /\ Len(trace) = 2 => (result = (should_be_missing = <<>>))
           /\ \A k \in 1..Len(ReplyList) :
                Reported(ReplyList[k]) =>
                   \E u \in Range(MarkedAbsent) :
                      /\ StructMatch(resp_xml, ReplyList[k], expect_xml, u)
                      /\ ~ValuesDiffer(ReplyList[k].el, u.el)

\* C4: with neither explicit nor report-all, process_expect_reply reports a
\* reply element with the tag and xpath of an absent-marked element exactly
\* when the two values agree or both sides carry no value, and its result is
\* False exactly when it reports one; so when every expectation element is
\* marked absent and the reply holds them with matching values the call
\* returns False.
C4_NoModeAbsence ==
    (AbsenceRan /\ with_defaults = {})
        => /\ \A k \in 1..Len(ReplyList) :
                Reported(ReplyList[k]) <=>
                   \E u \in Range(MarkedAbsent) :
                      /\ StructMatch(resp_xml, ReplyList[k], expect_xml, u)
                      /\ \/ ValuesAgree(ReplyList[k].el, u.el)
                         \/ BothEmpty(ReplyList[k].el, u.el)
           /\ Len(trace) = 2 => (result = (should_be_missing = <<>>))
           /\ (/\ ExpectList # <<>>
               /\ MarkedAbsent = ExpectList
               /\ \A u \in Range(ExpectList) : \E k \in 1..Len(ReplyList) :
                     /\ StructMatch(resp_xml, ReplyList[k], expect_xml, u)
                     /\ ~ValuesDiffer(ReplyList[k].el, u.el))
                 => (Returned /\ result = FALSE)

\* The second element of the expectation list is marked absent.
SecondMarked ==
    Len(ExpectList) >= 2 /\ ExpectedFalse(expect_xml, ExpectList[2].el)

\* C5 as stated: under every with-defaults setting, an expectation whose second
\* element is marked absent collapses to empty, so that without opfields the
\* call returns True for a reply without payload and False for one with
\* payload.
C5_CollapseAnyMode ==
    (Returned /\ ReplyOk /\ WellFormed(expect_xml) /\ given_opfields = <<>>
              /\ SecondMarked)
        => result = (ReplyList = <<>>)

\* C5 amended: when explicit is among the with-defaults modes, an expectation
\* whose second element is marked absent collapses to empty: without opfields
\* the call returns before either check, True for a reply without payload and
\* False for one with payload.
C5_CollapseUnderExplicit ==
    (Returned /\ ReplyOk /\ WellFormed(expect_xml) /\ given_opfields = <<>>
              /\ SecondMarked /\ "explicit" \in with_defaults)
        => /\ result = (ReplyList = <<>>)
           /\ expected = <<>>
           /\ Len(trace) = 1

C5_Witness ==
    /\ Returned /\ ReplyOk /\ WellFormed(expect_xml) /\ given_opfields = <<>>
    /\ SecondMarked /\ "explicit" \in with_defaults
    /\ ReplyList = <<>>
    /\ result = TRUE

\* C6 as stated: with an empty expectation (no payload elements) and no
\* opfields the call returns True when the reply has no payload elements and
\* False when it has some.
C6_EmptyExpectation ==
    (Returned /\ ReplyOk /\ given_opfields = <<>> /\ ExpectList = <<>>
              /\ (expect_xml = <<>> \/ WellFormed(expect_xml)))
        => result = (ReplyList = <<>>)

\* C6 amended: with an expectation that is a well-formed document without
\* payload elements (not an empty text) and no opfields, the call returns
\* before either check, True when the reply has no payload elements and False
\* when it has some.
C6_EmptyDocument ==
    (Returned /\ ReplyOk /\ given_opfields = <<>> /\ ExpectList = <<>>
              /\ WellFormed(expect_xml))
        => /\ result = (ReplyList = <<>>)
           /\ Len(trace) = 1

C6_Witness ==
    /\ Returned /\ ReplyOk /\ given_opfields = <<>> /\ ExpectList = <<>>
    /\ WellFormed(expect_xml)
    /\ ReplyList # <<>>
    /\ result = FALSE

\* C7: verify_reply reports a missing tag and returns False whenever an
\* expectation element that should be present has no reply element left with
\* its tag and xpath, a reply element serving one expectation element only.
C7_MissingTagReported ==
    PresenceRan =>
        \A j \in 1..Len(expected) :
            Unmatched(j) => /\ Returned
                            /\ result = FALSE
                            /\ expected[j].el \in Range(missing_tags)

\* C8: without opfields, a reply element matched to a present-expected element
\* gets a wrong-value error, and verify_reply returns False, exactly when the
\* values differ: not when both have no text, the texts are equal or equal
\* after a prefix the reply binds, but also when one side only has a value.
C8_WrongValueReported ==
    (PresenceRan /\ given_opfields = <<>>)
        => /\ \A i \in 1..Len(vlog) :
                vlog[i].reply # 0 =>
                   (vlog[i].expect \in Range(wrong_values)
                      <=> ValuesDiffer(vlog[i].reply, vlog[i].expect))
           /\ wrong_values # <<>> => result = FALSE

\* C9: under explicit, parse_rpc_expected returns True only if every payload
\* element of the reply was consumed by a present-expected element.
C9_ExplicitAllConsumed ==
    (Returned /\ ReplyOk /\ "explicit" \in with_defaults /\ result = TRUE)
        => \A k \in 1..Len(ReplyList) :
              \E i \in 1..Len(vlog) : vlog[i].reply = ReplyList[k].el

\* C10 as stated: a valued reply element that no supplied opfield matches by
\* xpath and name or by sequence number is compared with the expected value,
\* and a difference is a wrong-value failure.
C10_UnmatchedCompared ==
    Returned =>
        \A i \in 1..Len(vlog) :
            (/\ vlog[i].reply # 0
             /\ ElementValue(resp_xml, vlog[i].reply) # <<>>
             /\ ElementValue(expect_xml, vlog[i].expect) # <<>>
             /\ ~ValuesAgree(vlog[i].reply, vlog[i].expect)
             /\ \A f \in Range(vlog[i].pending) :
                   ~FieldMatches(f, vlog[i].reply, vlog[i].seq))
                => vlog[i].expect \in Range(wrong_values)

\* C10 amended: while opfields are pending, a valued reply element is never
\* compared with the expected value: it is evaluated by check_opfield with a
\* pending field that matches it by xpath and name or by sequence number, or
\* it gets no check at all; once no opfield is pending, a valued reply element
\* is a wrong-value failure exactly when the expected element has a value that
\* does not agree with it.
C10_OpfieldOrSkip ==
    \A i \in 1..Len(vlog) :
        (vlog[i].reply # 0 /\ ElementValue(resp_xml, vlog[i].reply) # <<>>)
            => IF vlog[i].pending # <<>>
               THEN /\ vlog[i].expect \notin Range(wrong_values)
                    /\ vlog[i].outcome \in {"pass", "fail", "skipped", "raise"}
                    /\ vlog[i].outcome \in {"pass", "fail"} =>
                          /\ Len(vlog[i].used) = 1
                          /\ vlog[i].used[1] \in Range(vlog[i].pending)
                          /\ FieldMatches(vlog[i].used[1], vlog[i].reply,
                                          vlog[i].seq)
                          /\ (vlog[i].outcome = "pass") <=>
                                CheckOpfield(
                                    ElementValue(resp_xml, vlog[i].reply),
                                    vlog[i].used[1])
                    /\ vlog[i].outcome = "fail" =>
                          (pc = "done" => result = FALSE)
               ELSE vlog[i].expect \in Range(wrong_values) <=>
                       /\ ElementValue(expect_xml, vlog[i].expect) # <<>>
                       /\ ~ValuesAgree(vlog[i].reply, vlog[i].expect)

C10_Witness ==
    /\ Returned
    /\ result = TRUE
    /\ \E i \in 1..Len(vlog) :
          /\ vlog[i].reply # 0
          /\ vlog[i].pending # <<>>
          /\ vlog[i].outcome = "skipped"
          /\ ElementValue(expect_xml, vlog[i].expect) # <<>>
          /\ ValuesDiffer(vlog[i].reply, vlog[i].expect)

-----------------------------------------------------------------------------
(* One call of check_opfield(value, field). *)

\* The longest range text of the checked inputs
MaxRange == 4

\* The state of parse_rpc_expected when another operation is the one called
RpcIdle ==
    /\ resp_xml = <<>>
    /\ expect_xml = <<>>
    /\ with_defaults = {}
    /\ opfields = <<>>
    /\ given_opfields = <<>>
    /\ pc = "idle"
    /\ result = TRUE
    /\ response = <<>>
    /\ expected = <<>>
    /\ should_be_missing = <<>>
    /\ missing_tags = <<>>
    /\ wrong_values = <<>>
    /\ missing_ns = {}
    /\ extra_tags = <<>>
    /\ vlog = <<>>
    /\ trace = <<>>

\* No call of parse_rpc_expected, no CliVerify instance and no device
Idle == RpcIdle /\ NoObjects

RangeAlphabet == {"1", "0", "7", "-", ",", " ", "a"}

RangeTexts == SeqsUpTo(RangeAlphabet, MaxRange)

RangeReplies ==
    {<<"7">>, <<"1">>, <<"1", "5">>, <<"1", ".", "5">>, <<"-", "1">>,
     <<"0">>, <<" ", "7", " ">>, <<"a">>, <<>>}

CompareOps == {"==", "!=", ">=", "<=", ">", "<"}

CompareTexts ==
    {<<"5">>, <<"0", "5">>, <<"1", "0">>, <<"7">>, <<"0">>, <<"0", "0">>,
     <<"1", ".", "5">>, <<"1", ".", "5", "0">>, <<"-", "1">>,
     <<"a">>, <<"up">>, <<"z">>, <<"a", "5">>, <<>>}

\* A field dictionary with the given value and op
OpField(value, op) ==
    [name |-> <<"a">>, xpath |-> PathA, value |-> value, op |-> op,
     has_id |-> FALSE, id |-> 0, selected |-> TRUE]

InitOpfield ==
    /\ Idle
    /\ ret = <<>>
    /\ \/ call \in {[fn |-> "check_opfield", value |-> v,
                     field |-> OpField(r, "range")] :
                    v \in RangeReplies, r \in RangeTexts}
       \/ call \in {[fn |-> "check_opfield", value |-> v,
                     field |-> OpField(f, op)] :
                    v \in CompareTexts, f \in CompareTexts, op \in CompareOps}

check_opfield ==
    /\ call.fn = "check_opfield"
    /\ ret = <<>>
    /\ ret' = <<CheckOpfield(call.value, call.field)>>
    /\ UNCHANGED <<rpcvars, call, objvars>>

SpecOpfield == InitOpfield /\ [][check_opfield]_vars

\* check_opfield has returned for operator op (any operator but "range"
\* when op is "compare").
OpfieldReturned(op) ==
    /\ call.fn = "check_opfield"
    /\ ret # <<>>
    /\ IF op = "compare" THEN call.field.op # "range" ELSE call.field.op = op

\* A text is a number when float() accepts it.
IsNumber(s) == FloatOf(s).ok

\* The parts of a range text that splits into exactly two numbers around
\* one of the three separators.
TwoNumbers(parts) ==
    Len(parts) = 2 /\ IsNumber(parts[1]) /\ IsNumber(parts[2])

RangeSplits(text) ==
    {parts \in {SplitOn(text, ","), SplitBlank(text),
                IF Count(text, "-") = 1 THEN SplitOn(text, "-") ELSE <<>>} :
        TwoNumbers(parts)}

\* C11: check_opfield with op "range" returns True if and only if the field
\* value splits into exactly two numbers low and high around a comma, around
\* whitespace or around a single hyphen, the reply value parses as a number
\* and low <= value <= high; every parse failure gives False.
C11_RangeIff ==
    OpfieldReturned("range") =>
        (ret[1] <=>
            /\ IsNumber(call.value)
            /\ \E parts \in RangeSplits(call.field.value) :
                /\ FloatLeq(FloatOf(parts[1]), FloatOf(call.value))
                /\ FloatLeq(FloatOf(call.value), FloatOf(parts[2])))

\* The truth value of "v op f": numeric when both texts are numbers, the
\* order of the strings when they are not.
TruthOf(op, v, f) ==
    IF IsNumber(v) /\ IsNumber(f)
    THEN OpOnOrder(op, FloatLeq(FloatOf(v), FloatOf(f))
                           /\ ~FloatEq(FloatOf(v), FloatOf(f)),
                   FloatEq(FloatOf(v), FloatOf(f)))
    ELSE OpOnOrder(op, StrLess(v, f), v = f)

\* C12: for the operators ==, !=, >=, <=, > and <, check_opfield returns
\* False when exactly one of the reply value and the expected value is purely
\* numeric; otherwise it returns the truth value of the operator applied to
\* the two values, numerically when both are numbers and as strings when they
\* are not, so that equal values pass "==" and fail "!=".
C12_CompareTruth ==
    OpfieldReturned("compare") =>
        (ret[1] <=>
            /\ IsNumeric(call.value) <=> IsNumeric(call.field.value)
            /\ TruthOf(call.field.op, call.value, call.field.value))

-----------------------------------------------------------------------------
(* RpcVerify.process_operational_state *)

\* value_state.get('reply_val', 'empty')
OperValue(value_state) ==
    IF value_state.has_reply_val THEN value_state.reply_val ELSE <<"empty">>

\* for field in opfields: a field that is not selected is removed while the
\* list is iterated, which makes the iterator skip the field that follows
\* it; the first selected field that the iterator reaches and that has the
\* xpath and the name of the reply is checked and removed.
RECURSIVE OperFieldLoop(_, _, _, _, _)
OperFieldLoop(fields, k, reply_xpath, localname, value) ==
    IF k > Len(fields)
    THEN [fields |-> fields, outcome |-> "none", used |-> <<>>]
    ELSE IF ~fields[k].selected
    THEN OperFieldLoop(RemoveFirst(fields, fields[k]), k + 1,
                       reply_xpath, localname, value)
    ELSE IF XPathMatch(fields[k], reply_xpath, localname)
    THEN Checked(fields, fields[k], value)
    ELSE OperFieldLoop(fields, k + 1, reply_xpath, localname, value)

\* for reply, reply_xpath in response
RECURSIVE OperWalk(_, _, _, _, _)
OperStep(rdoc, resp, i, res, loop) ==
    OperWalk(rdoc, resp, i + 1, loop.fields, res /\ loop.outcome # "fail")

OperWalk(rdoc, resp, i, fields, res) ==
    IF i > Len(resp) THEN [fields |-> fields, result |-> res]
    ELSE OperStep(rdoc, resp, i, res,
                  OperFieldLoop(fields, 1, resp[i].xpath,
                                LocalName(rdoc, resp[i].el),
                                OperValue(ProcessValues(rdoc, resp[i].el,
                                                        <<>>, 0))))

\* A walk that does not look at the fields left in the list.
OperEndLenient(walk) == [result |-> walk.result, opfields |-> walk.fields]

\* if opfields: ... result = False
OperEnd(walk) ==
    [result |-> walk.result /\ walk.fields = <<>>, opfields |-> walk.fields]

\* process_operational_state(response, opfields): the returned bool and the
\* list object as the call leaves it.
ProcessOperationalState(rdoc, resp, fields) ==
    IF fields = <<>> THEN [result |-> FALSE, opfields |-> fields]
    ELSE OperEnd(OperWalk(rdoc, resp, 1, fields, TRUE))

-----------------------------------------------------------------------------
(* process_rpc_reply followed by calls of process_operational_state with   *)
(* the same list object.                                                   *)

\* The number of calls made with the same list
MaxCalls == 2

RepliesO ==
    DocsOf({EnvReplyData}, TopsOf({{<<"", N1>>}}, {FALSE}),
           KidsOf({<<"a">>, <<"z">>}, {<<>>, Foo, Bar}, {FALSE}))
      \cup DocsOf({EnvReplyData}, {<<>>}, {<<>>})

OperFields ==
    {[name |-> <<"a">>, xpath |-> PathA, value |-> Foo, op |-> "==",
      has_id |-> FALSE, id |-> 0, selected |-> TRUE],
     [name |-> <<"a">>, xpath |-> PathA, value |-> Foo, op |-> "==",
      has_id |-> FALSE, id |-> 0, selected |-> FALSE],
     [name |-> <<"a">>, xpath |-> PathA, value |-> <<"empty">>, op |-> "==",
      has_id |-> FALSE, id |-> 0, selected |-> TRUE],
     [name |-> <<"z">>, xpath |-> PathZ, value |-> Foo, op |-> "==",
      has_id |-> FALSE, id |-> 0, selected |-> TRUE],
     [name |-> <<"z">>, xpath |-> PathZ, value |-> Foo, op |-> "==",
      has_id |-> FALSE, id |-> 0, selected |-> FALSE],
     [name |-> <<"a">>, xpath |-> PathZ, value |-> Foo, op |-> "==",
      has_id |-> FALSE, id |-> 0, selected |-> TRUE],
     [name |-> TopName, xpath |-> <<"/", "top">>, value |-> <<"empty">>,
      op |-> "==", has_id |-> FALSE, id |-> 0, selected |-> TRUE]}

\* The most elements inside the rpc-reply of a nested reply
MaxPayload == 3

\* Names of payload elements: data, rpc-reply, database and a
PayloadNames == {DataName, RpcReplyName, <<"data", "base">>, <<"a">>}

\* The element i and its ancestors under the parent map p
RECURSIVE AncSelf(_, _)
AncSelf(p, i) == IF i <= 1 THEN {1} ELSE {i} \cup AncSelf(p, p[i])

\* The parent maps of n elements inside a root, in document order: an
\* element's parent is the element before it or one of that one's ancestors.
Preorder(n) ==
    {p \in [1..(n + 1) -> 0..n] :
        /\ p[1] = 0
        /\ \A i \in 2..(n + 1) :
              p[i] \in (IF i = 2 THEN {1} ELSE AncSelf(p, i - 1))}

PayloadDoc(p, names, n) ==
    [i \in 1..(n + 1) |->
       IF i = 1
       THEN [name |-> RpcReplyName, pfx |-> "",
             decl |-> {<<"", NETCONF_NAMESPACE>>}, text |-> <<>>,
             parent |-> 0, minus |-> FALSE]
       ELSE [name |-> names[i], pfx |-> "", decl |-> {}, text |-> <<>>,
             parent |-> p[i], minus |-> FALSE]]

\* Replies whose payload elements are nested and carry the envelope's names.
RepliesE ==
    UNION {{PayloadDoc(p, names, n) :
               p \in Preorder(n), names \in [2..(n + 1) -> PayloadNames]} :
           n \in 1..MaxPayload}

InitOperState ==
    /\ \/ /\ resp_xml \in RepliesO
          /\ opfields \in SeqsUpTo(OperFields, MaxFields)
       \/ /\ resp_xml \in RepliesD \cup RepliesE
          /\ opfields = <<>>
    /\ given_opfields = opfields
    /\ expect_xml = <<>>
    /\ with_defaults = {}
    /\ pc = "start"
    /\ result = TRUE
    /\ response = <<>>
    /\ expected = <<>>
    /\ should_be_missing = <<>>
    /\ missing_tags = <<>>
    /\ wrong_values = <<>>
    /\ missing_ns = {}
    /\ extra_tags = <<>>
    /\ vlog = <<>>
    /\ trace = <<>>
    /\ call = [fn |-> "process_operational_state"]
    /\ ret = <<>>
    /\ NoObjects

\* process_rpc_reply has its list, has returned False or has raised.
Walked(reply) ==
    /\ pc' = IF reply.raised THEN "raised"
             ELSE IF reply.ok THEN "walked" ELSE "failed"
    /\ response' = reply.list

\* resp_elements = rpc_verify.process_rpc_reply(resp_xml)
process_rpc_reply ==
    /\ call.fn = "process_operational_state"
    /\ pc = "start"
    /\ Walked(ProcessRpcReply(resp_xml))
    /\ trace' = Append(trace, "process_rpc_reply")
    /\ UNCHANGED <<resp_xml, expect_xml, with_defaults, opfields,
                   given_opfields, result, expected, should_be_missing,
                   missing_tags, wrong_values, missing_ns, extra_tags, vlog,
                   call, ret, objvars>>

OperReturned(out) ==
    /\ ret' = Append(ret, out.result)
    /\ opfields' = out.opfields

\* rpc_verify.process_operational_state(resp_elements, opfields)
process_operational_state ==
    /\ call.fn = "process_operational_state"
    /\ pc = "walked"
    /\ Len(ret) < MaxCalls
    /\ OperReturned(ProcessOperationalState(resp_xml, response, opfields))
    /\ trace' = Append(trace, "process_operational_state")
    /\ UNCHANGED <<resp_xml, expect_xml, with_defaults, given_opfields, pc,
                   result, response, expected, should_be_missing,
                   missing_tags, wrong_values, missing_ns, extra_tags, vlog,
                   call, objvars>>

NextOperState ==
    \/ process_rpc_reply
    \/ process_operational_state

SpecOperState == InitOperState /\ [][NextOperState]_vars

\* The first call of process_operational_state has returned.
OperCalled == call.fn = "process_operational_state" /\ ret # <<>>

AllSelected(fields) == \A j \in 1..Len(fields) : fields[j].selected

\* The reply elements that have the xpath and the local name of field f
OperMatches(f) ==
    {k \in 1..Len(response) :
        /\ response[k].xpath = f.xpath
        /\ LocalName(resp_xml, response[k].el) = f.name}

\* The field at j is the n-th of the list fields with its xpath and name.
OperRank(fields, j) ==
    Cardinality({i \in 1..j : /\ fields[i].xpath = fields[j].xpath
                              /\ fields[i].name = fields[j].name})

\* The n-th reply element, in document order, of the set S
NthOf(S, n) == CHOOSE k \in S : Cardinality({i \in S : i <= k}) = n

\* The text of a reply element, 'empty' when it has none
OperText(k) ==
    IF Strip(resp_xml[response[k].el].text) = <<>> THEN <<"empty">>
    ELSE Strip(resp_xml[response[k].el].text)

\* Every field of the list is consumed by a reply element of its own, the
\* n-th field of an xpath and name by the n-th such element, and passes.
AllConsumedAndPass(fields) ==
    \A j \in 1..Len(fields) :
        /\ OperRank(fields, j) <= Cardinality(OperMatches(fields[j]))
        /\ CheckOpfield(OperText(NthOf(OperMatches(fields[j]),
                                       OperRank(fields, j))),
                        fields[j])

\* C13: for a non-empty list of opfields that are all selected, the reply
\* elements in document order each consume the first pending field that has
\* their xpath and local name, and process_operational_state returns True if
\* and only if every field is consumed and passes check_opfield; a field
\* left pending makes the result False.
C13_AllSelectedResult ==
    (OperCalled /\ given_opfields # <<>> /\ AllSelected(given_opfields))
        => (ret[1] <=> AllConsumedAndPass(given_opfields))

\* Two different selected fields of one xpath, each consumed by its own reply
\* element, and both passing.
C13_Witness ==
    /\ OperCalled /\ AllSelected(given_opfields)
    /\ Len(given_opfields) = 2
    /\ given_opfields[1].xpath = given_opfields[2].xpath
    /\ given_opfields[1] # given_opfields[2]
    /\ ret[1]

\* The list without its fields that are not selected
RECURSIVE SelectedOnly(_)
SelectedOnly(fields) ==
    IF fields = <<>> THEN <<>>
    ELSE IF Head(fields).selected
    THEN <<Head(fields)>> \o SelectedOnly(Tail(fields))
    ELSE SelectedOnly(Tail(fields))

\* C14: fields flagged selected: false are never evaluated and never counted
\* as missing: for every reply and every position of the disabled fields,
\* process_operational_state returns what it returns for the list with the
\* disabled fields removed beforehand.
C14_DisabledIgnored ==
    OperCalled =>
        ret[1] = ProcessOperationalState(resp_xml, response,
                                         SelectedOnly(given_opfields)).result

\* C17: process_operational_state leaves the caller's opfields list
\* unchanged, so that calling it twice in a row with the same reply and the
\* same list object returns the same boolean both times.
C17_OpfieldsUntouched ==
    OperCalled =>
        /\ opfields = given_opfields
        /\ \A n \in 1..Len(ret) : ret[n] = ret[1]

\* C15: parse_rpc_expected never raises to the caller: for every reply, every
\* expected text and every opfields list whose entries carry name, xpath,
\* value and op and only optionally id and selected, the call ends by
\* returning True or False, and a reply whose root is not rpc-reply yields
\* False.
C15_NeverRaises ==
    /\ pc # "raised"
    /\ (Returned /\ resp_xml # <<>> /\ LocalName(resp_xml, 1) # RpcReplyName)
           => result = FALSE

\* process_rpc_reply has returned its list.
ReplyWalked == call.fn = "process_operational_state" /\ pc = "walked"

\* The data wrapper: the first child of the rpc-reply root, when named data
IsWrapper(i) == i = 2 /\ LocalName(resp_xml, 2) = DataName

\* The path of the element without a leading /rpc-reply/data
RelativePath(path) ==
    IF IsPrefix(EnvelopePath, path) /\ (Len(path) = 4 \/ path[5] = "/")
    THEN SubSeq(path, 5, Len(path))
    ELSE path

\* The elements of the reply but the root and the wrapper, in document order
RECURSIVE PayloadFrom(_)
PayloadFrom(i) ==
    IF i > Len(resp_xml) THEN <<>>
    ELSE IF IsWrapper(i) THEN PayloadFrom(i + 1)
    ELSE <<[el |-> i, xpath |-> RelativePath(FullPath(resp_xml, i))]>>
             \o PayloadFrom(i + 1)

\* C16: for a well-formed reply rooted at rpc-reply, process_rpc_reply
\* returns in document order one (element, xpath) pair for every element but
\* the rpc-reply root and the data wrapper that is its direct child, payload
\* elements named data or rpc-reply included, each xpath being the local
\* names from the root down to the element without the leading
\* /rpc-reply/data.
C16_EveryPayloadElement ==
    ReplyWalked => response = PayloadFrom(2)

\* C18 as stated: parse_rpc_expected runs the presence check (verify_reply)
\* also when the absence check has found should-be-absent violations, so
\* that the errors of both checks are reported in the same call.
C18_PresenceAlwaysRuns ==
    (Returned /\ should_be_missing # <<>> /\ expected # <<>>) => PresenceRan

\* C18: when the absence check finds should-be-absent violations the call
\* returns False after it, the presence check does not run and none of its
\* errors is reported; the presence check runs when the absence check found
\* nothing and the remaining expectation and the reply are both non-empty.
C18_PresenceAfterCleanAbsence ==
    /\ (AbsenceRan /\ should_be_missing # <<>>) =>
           /\ pc = "done" /\ result = FALSE /\ ~PresenceRan
           /\ missing_tags = <<>> /\ wrong_values = <<>>
           /\ missing_ns = {} /\ extra_tags = <<>>
    /\ (Len(trace) = 2 /\ should_be_missing = <<>>
            /\ expected # <<>> /\ response # <<>>) => pc = "presence"

\* A call that returned after the absence check reported a reply element,
\* with expected elements left to look for that the reply does not hold.
C18_Witness ==
    /\ Returned /\ should_be_missing # <<>>
    /\ \E j \in 1..Len(expected) :
          \A k \in 1..Len(response) :
              ~StructMatch(resp_xml, response[k], expect_xml, expected[j])

-----------------------------------------------------------------------------
(* CiscoConfig.normalize *)

\* CiscoConfig.skip
SkipWords ==
    {"enable", "config", "t", "configure", "end", "show", "terminal",
     "commit", "#", "!", "<rpc", "Building"}

\* The tokens whose first three characters, in lower case, are in
\* CiscoConfig.timestamps
TimestampLeads == {"Mon"}

\* The tokens that CiscoConfig.timeregex matches at their start
TimeTokens == {"12:00"}

More == "--More--"

CurrentConfiguration == <<"Current", " ", "configuration">>

\* str.splitlines(): the runs between line ends, no last empty line
RECURSIVE SplitLines(_)
SplitLinesAt(cfg, k) ==
    IF k = 0 THEN <<cfg>>
    ELSE <<SubSeq(cfg, 1, k - 1)>> \o SplitLines(SubSeq(cfg, k + 1, Len(cfg)))

SplitLines(cfg) ==
    IF cfg = <<>> THEN <<>> ELSE SplitLinesAt(cfg, IndexOf(cfg, "\n"))

\* ''.join(words)
RECURSIVE Concat(_)
Concat(words) ==
    IF words = <<>> THEN <<>> ELSE Head(words) \o Concat(Tail(words))

\* str.replace(pat, new, 1)
RECURSIVE ReplaceFirst(_, _, _)
ReplaceFirst(s, pat, new) ==
    IF s = <<>> THEN <<>>
    ELSE IF IsPrefix(pat, s) THEN new \o SubSeq(s, Len(pat) + 1, Len(s))
    ELSE <<Head(s)>> \o ReplaceFirst(Tail(s), pat, new)

\* _handle_intf: "interface " and the other words run together
HandleIntf(words) ==
    <<"interface", " ">> \o Concat(RemoveFirst(words, <<"interface">>))

\* _handle_username
HandleUsername(line) ==
    ReplaceFirst(line, <<"password", " ", "0">>, <<"password">>)

\* _handle_exit: <<>> stands for None
HandleExit(line, words) == IF Len(words) = 1 THEN <<>> ELSE line

\* _check_special_handles
CheckSpecialHandles(line, words) ==
    IF words[1] = <<"interface">> THEN HandleIntf(words)
    ELSE IF words[1] = <<"username">> THEN HandleUsername(line)
    ELSE IF words[1] = <<"exit">> THEN HandleExit(line, words)
    ELSE line

\* _check_timestamps: line[:3] is looked at without stripping the line
CheckTimestamps(line, words) ==
    /\ Head(line) \in TimestampLeads
    /\ \E i \in 1..Len(words) : Head(words[i]) \in TimeTokens

\* clean_cfg.append(line.strip()) unless the handler returned None
Handled(line) == IF line = <<>> THEN <<>> ELSE <<Strip(line)>>

\* The checks on the first word of the line
ByFirstWord(line, words) ==
    IF Len(words[1]) = 1 /\ words[1][1] \in SkipWords THEN <<>>
    ELSE IF CheckTimestamps(line, words) THEN <<>>
    ELSE Handled(CheckSpecialHandles(line, words))

\* The checks on the beginning and the end of the line as it is
Filtered(line) ==
    IF Head(line) = "#" THEN <<>>
    ELSE IF Head(line) = "!" THEN <<>>
    ELSE IF IsPrefix(CurrentConfiguration, line) THEN <<>>
    ELSE IF Last(RStrip(line)) = "#" THEN <<>>
    ELSE ByFirstWord(line, SplitBlank(line))

\* line = line[line.find('--More--') + 8:]
AfterMore(rest) == IF SplitBlank(rest) = <<>> THEN <<>> ELSE Filtered(rest)

\* One turn of the loop of normalize: no line or one line of clean_cfg
NormalizeLine(line) ==
    IF Strip(line) = <<>> THEN <<>>
    ELSE IF IndexOf(line, More) # 0
    THEN AfterMore(SubSeq(line, IndexOf(line, More) + 1, Len(line)))
    ELSE Filtered(line)

RECURSIVE NormalizeLines(_)
NormalizeLines(lines) ==
    IF lines = <<>> THEN <<>>
    ELSE NormalizeLine(Head(lines)) \o NormalizeLines(Tail(lines))

\* normalize(cfg): the list of the kept lines
Normalize(cfg) == NormalizeLines(SplitLines(cfg))

\* '\n'.join(lines)
RECURSIVE JoinLines(_)
JoinLines(lines) ==
    IF lines = <<>> THEN <<>>
    ELSE IF Len(lines) = 1 THEN lines[1]
    ELSE lines[1] \o <<"\n">> \o JoinLines(Tail(lines))

-----------------------------------------------------------------------------
(* normalize called on a text, then on its own result joined into text. *)

\* The most lines of a checked configuration text
MaxLines == 2

Indents == {<<>>, <<" ">>}

LineHeads ==
    {<<"x">>, <<"#">>, <<"!">>, <<"!", "x">>, <<"end">>, <<"interface">>,
     <<"username">>, <<"exit">>, <<"Mon">>, <<More>>, CurrentConfiguration}

LineTails ==
    {<<>>, <<" ">>, <<" ", "x">>, <<" ", "12:00">>, <<" ", "Gi", " ", "0">>,
     <<" ", "password", " ", "0", " ", "0">>, <<" ", "#">>,
     <<" ", More, " ", "!", "x">>}

ConfigLines == {i \o h \o t : i \in Indents, h \in LineHeads, t \in LineTails}

ConfigTexts == {JoinLines(ls) : ls \in SeqsUpTo(ConfigLines, MaxLines)}

InitNormalize ==
    /\ Idle
    /\ call \in [fn : {"normalize"}, cfg : ConfigTexts]
    /\ ret = <<>>

\* The text given to the next call: cfg, then the last result joined
NextText == IF ret = <<>> THEN call.cfg ELSE JoinLines(Last(ret))

normalize ==
    /\ call.fn = "normalize"
    /\ Len(ret) < MaxCalls
    /\ ret' = Append(ret, Normalize(NextText))
    /\ UNCHANGED <<rpcvars, call, objvars>>

SpecNormalize == InitNormalize /\ [][normalize]_vars

\* C19: normalize is idempotent: normalizing the lines of normalize(cfg)
\* joined back into text yields normalize(cfg) again; no surviving line is
\* dropped or rewritten by a second pass.
C19_NormalizeIdempotent ==
    (call.fn = "normalize" /\ Len(ret) >= 2) => ret[2] = ret[1]

-----------------------------------------------------------------------------
(* CiscoConfig.diffs *)
(* DeepDiff(t1, t2, ignore_order=True, report_repetition=True) of two lists *)
(* of lines compares the lists as bags: a line of t2 that t1 does not hold  *)
(* is an added item, once for each place it has in t2; a line of t1 that t2 *)
(* does not hold is a removed item; a line that both hold, but not equally  *)
(* often, is a repetition change with the places it has in each list.  A    *)
(* place is an index from 1 here, from 0 in Python.                         *)

\* The lines of t, each once, in the order in which they first occur
RECURSIVE Distinct(_)
Distinct(t) ==
    IF t = <<>> THEN <<>>
    ELSE <<Head(t)>> \o Distinct(SelectSeq(Tail(t), LAMBDA x : x # Head(t)))

\* The places of line in t, ascending
RECURSIVE IndexesFrom(_, _, _)
IndexesFrom(t, line, i) ==
    IF i > Len(t) THEN <<>>
    ELSE IF t[i] = line THEN <<i>> \o IndexesFrom(t, line, i + 1)
    ELSE IndexesFrom(t, line, i + 1)

\* Every line counts as added, also a line that the other list holds.
RECURSIVE ItemsOnlyInAll(_, _, _)
ItemsOnlyInAll(t, other, lines) ==
    IF lines = <<>> THEN <<>>
    ELSE [i \in 1..Count(t, Head(lines)) |-> Head(lines)]
             \o ItemsOnlyInAll(t, other, Tail(lines))

\* iterable_item_added (t = t2, other = t1) and iterable_item_removed
\* (t = t1, other = t2): the items of t that other does not hold, over the
\* distinct lines of t
RECURSIVE ItemsOnlyIn(_, _, _)
ItemsOnlyIn(t, other, lines) ==
    IF lines = <<>> THEN <<>>
    ELSE IF Count(other, Head(lines)) = 0
    THEN [i \in 1..Count(t, Head(lines)) |-> Head(lines)]
             \o ItemsOnlyIn(t, other, Tail(lines))
    ELSE ItemsOnlyIn(t, other, Tail(lines))

\* repetition_change: the lines of both lists whose counts differ
RECURSIVE RepetitionChange(_, _, _)
RepetitionChange(t1, t2, lines) ==
    IF lines = <<>> THEN <<>>
    ELSE IF /\ Count(t1, Head(lines)) # 0
            /\ Count(t1, Head(lines)) # Count(t2, Head(lines))
    THEN <<[item |-> Head(lines),
            old_repeat |-> Count(t1, Head(lines)),
            new_repeat |-> Count(t2, Head(lines)),
            old_indexes |-> IndexesFrom(t1, Head(lines), 1),
            new_indexes |-> IndexesFrom(t2, Head(lines), 1)]>>
             \o RepetitionChange(t1, t2, Tail(lines))
    ELSE RepetitionChange(t1, t2, Tail(lines))

DeepDiff(t1, t2) ==
    [iterable_item_added |-> ItemsOnlyIn(t2, t1, Distinct(t2)),
     iterable_item_removed |-> ItemsOnlyIn(t1, t2, Distinct(t1)),
     repetition_change |-> RepetitionChange(t1, t2, Distinct(t2))]

\* parent[index - 1]: the line before the place, the last line of the list
\* for the first place (Python's index -1)
LineBefore(parent, place) ==
    IF place = 1 THEN parent[Len(parent)] ELSE parent[place - 1]

\* The for-else over the other list's places: TRUE when none of them has
\* the given line before it
NoSameBefore(line, parent, indexes) ==
    \A k \in 1..Len(indexes) : LineBefore(parent, indexes[k]) # line

\* The entries that one repetition change adds, for the places indexes of
\* the list parent, mark being <<>> or <<"-">>
RECURSIVE RepeatedAt(_, _, _, _, _, _, _)
RepeatedAt(item, parent, indexes, k, other, others, mark) ==
    IF k > Len(indexes) THEN <<>>
    ELSE IF NoSameBefore(LineBefore(parent, indexes[k]), other, others)
    THEN <<<<LineBefore(parent, indexes[k]), "\n">> \o mark
               \o <<item, "\n">>>>
             \o RepeatedAt(item, parent, indexes, k + 1, other, others, mark)
    ELSE RepeatedAt(item, parent, indexes, k + 1, other, others, mark)

\* for rep in repetition: what is appended to added_cli
RECURSIVE RepeatedAdded(_, _, _)
RepeatedAdded(reps, t1, t2) ==
    IF reps = <<>> THEN <<>>
    ELSE IF Head(reps).old_repeat < Head(reps).new_repeat
    THEN RepeatedAt(Head(reps).item, t2, Head(reps).new_indexes, 1,
                    t1, Head(reps).old_indexes, <<>>)
             \o RepeatedAdded(Tail(reps), t1, t2)
    ELSE RepeatedAdded(Tail(reps), t1, t2)

\* for rep in repetition: what is appended to removed_cli
RECURSIVE RepeatedRemoved(_, _, _)
RepeatedRemoved(reps, t1, t2) ==
    IF reps = <<>> THEN <<>>
    ELSE IF ~(Head(reps).old_repeat < Head(reps).new_repeat)
    THEN RepeatedAt(Head(reps).item, t1, Head(reps).old_indexes, 1,
                    t2, Head(reps).new_indexes, <<"-">>)
             \o RepeatedRemoved(Tail(reps), t1, t2)
    ELSE RepeatedRemoved(Tail(reps), t1, t2)

AddedCli(items) == [i \in 1..Len(items) |-> <<items[i], "\n">>]

\* A removed line reported without its mark.
RemovedCliBare(items) == [i \in 1..Len(items) |-> <<items[i], "\n">>]

RemovedCli(items) == [i \in 1..Len(items) |-> <<"-", items[i], "\n">>]

DiffsOf(ddiff, cli_base, cli_after) ==
    [added |-> AddedCli(ddiff.iterable_item_added)
                   \o RepeatedAdded(ddiff.repetition_change,
                                    cli_base, cli_after),
     removed |-> RemovedCli(ddiff.iterable_item_removed)
                     \o RepeatedRemoved(ddiff.repetition_change,
                                        cli_base, cli_after)]

\* diffs(cli_base, cli_after): (added_cli, removed_cli)
Diffs(cli_base, cli_after) ==
    DiffsOf(DeepDiff(cli_base, cli_after), cli_base, cli_after)

-----------------------------------------------------------------------------
(* One call of diffs(cli_base, cli_after). *)

\* The most lines of a checked list
MaxDiffLines == 3

DiffLines == {"x", "y", "z"}

LineLists == SeqsUpTo(DiffLines, MaxDiffLines)

InitDiffs ==
    /\ Idle
    /\ call \in [fn : {"diffs"}, cli_base : LineLists, cli_after : LineLists]
    /\ ret = <<>>

diffs ==
    /\ call.fn = "diffs"
    /\ ret = <<>>
    /\ ret' = <<Diffs(call.cli_base, call.cli_after)>>
    /\ UNCHANGED <<rpcvars, call, objvars>>

SpecDiffs == InitDiffs /\ [][diffs]_vars

DiffsReturned == call.fn = "diffs" /\ ret # <<>>

\* C20: diffs(base, base) returns ([], []) for every list of lines base,
\* lists with repeated lines included.
C20_NoSelfDiff ==
    (DiffsReturned /\ call.cli_after = call.cli_base)
        => (ret[1].added = <<>> /\ ret[1].removed = <<>>)

\* diffs has returned for a list with a repeated line given twice.
C20_Witness ==
    /\ DiffsReturned /\ call.cli_after = call.cli_base
    /\ Len(call.cli_base) = 3
    /\ call.cli_base[1] = call.cli_base[3]
    /\ call.cli_base[1] # call.cli_base[2]

NoRepeats(t) == \A i, j \in 1..Len(t) : t[i] = t[j] => i = j

EntriesOf(t) == {t[i] : i \in 1..Len(t)}

\* C21: for lists without repeated lines, the added entries of
\* diffs(base, after) are exactly the lines of after that base does not
\* hold, each once and with no prefix; the removed entries are exactly the
\* lines of base that after does not hold, each once and with the "-"
\* prefix; and diffs(after, base) is the mirror image: its removed entries
\* are the added entries with "-" put in front, its added entries are the
\* removed entries with the "-" taken off.
C21_MirrorSymmetric ==
    (DiffsReturned /\ NoRepeats(call.cli_base) /\ NoRepeats(call.cli_after))
        => LET onlyAfter == EntriesOf(call.cli_after)
                                \ EntriesOf(call.cli_base)
               onlyBase == EntriesOf(call.cli_base)
                               \ EntriesOf(call.cli_after)
               swapped == Diffs(call.cli_after, call.cli_base)
           IN  /\ EntriesOf(ret[1].added) = {<<l, "\n">> : l \in onlyAfter}
               /\ Len(ret[1].added) = Cardinality(onlyAfter)
               /\ EntriesOf(ret[1].removed)
                      = {<<"-", l, "\n">> : l \in onlyBase}
               /\ Len(ret[1].removed) = Cardinality(onlyBase)
               /\ EntriesOf(swapped.removed)
                      = {<<"-">> \o e : e \in EntriesOf(ret[1].added)}
               /\ Len(swapped.removed) = Len(ret[1].added)
               /\ EntriesOf(swapped.added)
                      = {Tail(e) : e \in EntriesOf(ret[1].removed)}
               /\ Len(swapped.added) = Len(ret[1].removed)

\* diffs has returned for two lists without repeated lines, each holding a
\* line that the other does not hold, and one line that both hold.
C21_Witness ==
    /\ DiffsReturned
    /\ NoRepeats(call.cli_base) /\ NoRepeats(call.cli_after)
    /\ Len(call.cli_base) = 2 /\ Len(call.cli_after) = 2
    /\ EntriesOf(call.cli_base) \cap EntriesOf(call.cli_after) # {}
    /\ ret[1].added # <<>> /\ ret[1].removed # <<>>

-----------------------------------------------------------------------------
(* ActionRunner.run *)
(* The class ActionRunner is built by ActionMeta on the dictionary          *)
(* actiondict: the six handlers are attributes of the class, and so are the *)
(* methods that the class body defines.  run looks the action's name up     *)
(* with hasattr and calls whatever attribute it finds.                      *)

\* The keys of actiondict
ActionKinds == {"cli", "yang", "sleep", "repeat", "timestamp", "empty"}

\* The methods that the body of ActionRunner adds to the class
RunnerMethods == {"__init__", "run", "run_banner", "run_log"}

\* The attribute that __init__ sets on the instance
RunnerFields == {"log"}

HasAttr(name) == name \in ActionKinds \cup RunnerMethods \cup RunnerFields

\* action.get('action', 'empty')
RunName(action) ==
    IF "action" \in DOMAIN action THEN action.action ELSE "empty"

\* if not hasattr(self, name): name = 'empty'
Dispatched(name) == IF HasAttr(name) THEN name ELSE "empty"

\* What a handler returns: the device decides for cli and yang, the other
\* handlers return True.
HandlerResult(kind, device) ==
    IF kind \in {"cli", "yang"} THEN device ELSE "True"

\* getattr(self, name)(action, params, testbed): a handler runs; run enters
\* itself with the same arguments; run_banner, run_log and __init__ take
\* fewer arguments and the logger is not callable, a TypeError.
Invoked(target, device) ==
    IF target \in ActionKinds THEN HandlerResult(target, device)
    ELSE IF target = "run" THEN "running"
    ELSE "raised"

RunOutcome(name, target, device) ==
    [name |-> name, invoked |-> <<target>>,
     result |-> Invoked(target, device)]

\* The frames of run that the interpreter allows before RecursionError
RecursionLimit == 3

\* run inside run: one more frame, or RecursionError at the limit
RunAgain(outcome) ==
    [outcome EXCEPT !.invoked = @ \o <<"run">>,
                    !.result = IF Len(outcome.invoked) + 1 >= RecursionLimit
                               THEN "raised" ELSE "running"]

-----------------------------------------------------------------------------
(* The calls of ActionRunner.run for the actions of one test, in order, as  *)
(* TestSpec._step_test makes them; an exception ends the sequence.          *)

\* The most actions of a test
MaxActions == 2

ActionNames == ActionKinds \cup {"bogus", "run", "run_log", "log"}

ActionDicts ==
    {[banner |-> "b"]} \cup [action : ActionNames, banner : {"b"}]

DeviceResults == {"True", "False"}

InitRun ==
    /\ Idle
    /\ call \in [fn : {"run"}, actions : SeqsUpTo(ActionDicts, MaxActions)]
    /\ ret = <<>>

run ==
    /\ call.fn = "run"
    /\ \/ /\ Len(ret) < Len(call.actions)
          /\ IF ret = <<>> THEN TRUE
             ELSE Last(ret).result \in {"True", "False"}
          /\ \E device \in DeviceResults :
                ret' = Append(ret,
                           RunOutcome(
                               RunName(call.actions[Len(ret) + 1]),
                               Dispatched(
                                   RunName(call.actions[Len(ret) + 1])),
                               device))
       \/ /\ IF ret = <<>> THEN FALSE ELSE Last(ret).result = "running"
          /\ ret' = [ret EXCEPT ![Len(ret)] = RunAgain(@)]
    /\ UNCHANGED <<rpcvars, call, objvars>>

SpecRun == InitRun /\ [][run]_vars

\* C22: an action whose name is missing or is none of cli, yang, sleep,
\* repeat, timestamp, empty is handled by the empty handler alone, which
\* returns True: no other attribute of the runner is invoked and nothing is
\* raised.
C22_UnknownToEmpty ==
    call.fn = "run" =>
        \A k \in 1..Len(ret) :
            ("action" \notin DOMAIN call.actions[k]
                 \/ call.actions[k].action \notin ActionKinds)
                => (ret[k].invoked = <<"empty">> /\ ret[k].result = "True")

-----------------------------------------------------------------------------
(* get_bgp_neighbors_advertised_routes *)
(* Time is counted in ticks.  Timeout(max_time, check_interval) allows an   *)
(* iteration while the clock has not reached max_time; a call of            *)
(* device.parse takes ParseTicks, timeout.sleep() takes check_interval.     *)
(* A parse raises SchemaEmptyParserError (kind "raise"), or returns a       *)
(* result: an empty one (kind "empty"), one with the advertised routes of   *)
(* the neighbor (kind "routes"), one without the neighbor (kind "nokey"),   *)
(* or one whose neighbor has no entry for the address family (kind "noaf"). *)

ParseTicks == 1

Unbound == [kind |-> "unbound", adv |-> <<>>]

\* if out / if not out, for a bound name
Truthy(out) == out.kind \in {"routes", "nokey", "noaf"}

\* What the function does with the result it holds after the loop
AdvertisedOf(out, polls) ==
    IF out.kind = "unbound"
    THEN [raised |-> "UnboundLocalError", value |-> <<>>, polls |-> polls]
    ELSE IF ~Truthy(out)
    THEN [raised |-> "none", value |-> <<>>, polls |-> polls]
    ELSE IF out.kind = "nokey"
    THEN [raised |-> "none", value |-> <<>>, polls |-> polls]
    ELSE IF out.kind = "noaf"
    THEN [raised |-> "StopIteration", value |-> <<>>, polls |-> polls]
    ELSE [raised |-> "none", value |-> out.adv, polls |-> polls]

\* The parse of the i-th iteration; the device keeps answering as it did
\* last once the listed answers are used up.
ParseAt(parses, i) ==
    IF i <= Len(parses) THEN parses[i] ELSE parses[Len(parses)]

\* while timeout.iterate(): i counts the iterations begun, out is the name
\* out as the iterations before left it
RECURSIVE PollRoutes(_, _, _, _, _, _)
PollRoutes(parses, i, clock, max_time, check_interval, out) ==
    IF ~(clock < max_time) THEN AdvertisedOf(out, i - 1)
    ELSE IF ParseAt(parses, i).kind = "raise"
    THEN \* except SchemaEmptyParserError: timeout.sleep(); then if out:
         IF out.kind = "unbound"
         THEN [raised |-> "UnboundLocalError", value |-> <<>>, polls |-> i]
         ELSE IF Truthy(out) THEN AdvertisedOf(out, i)
         ELSE PollRoutes(parses, i + 1,
                         clock + ParseTicks + check_interval,
                         max_time, check_interval, out)
    ELSE IF Truthy(ParseAt(parses, i))
    THEN AdvertisedOf(ParseAt(parses, i), i)
    ELSE PollRoutes(parses, i + 1, clock + ParseTicks,
                    max_time, check_interval, ParseAt(parses, i))

-----------------------------------------------------------------------------
(* One call of get_bgp_neighbors_advertised_routes. *)

\* The most answers of the device that differ from the last one
MaxParses == 3

\* The largest max_time, in ticks
MaxTime == 4

ParseResults ==
    [kind : {"raise", "empty", "nokey", "noaf"}, adv : {<<>>}]
        \cup [kind : {"routes"}, adv : {<<"r1">>, <<"r2">>}]

InitAdvertised ==
    /\ Idle
    /\ call \in [fn : {"get_bgp_neighbors_advertised_routes"},
                 parses : SeqsUpTo(ParseResults, MaxParses) \ {<<>>},
                 max_time : 0..MaxTime,
                 check_interval : 1..2]
    /\ ret = <<>>

get_bgp_neighbors_advertised_routes ==
    /\ call.fn = "get_bgp_neighbors_advertised_routes"
    /\ ret = <<>>
    /\ ret' = <<PollRoutes(call.parses, 1, 0, call.max_time,
                           call.check_interval, Unbound)>>
    /\ UNCHANGED <<rpcvars, call, objvars>>

SpecAdvertised ==
    InitAdvertised /\ [][get_bgp_neighbors_advertised_routes]_vars

AdvertisedReturned ==
    call.fn = "get_bgp_neighbors_advertised_routes" /\ ret # <<>>

\* C23: the function never raises; it returns the advertised routes of the
\* first non-empty result among the parses it made, and {} when none of
\* the parses it made gave a result, in particular when every parse raised
\* SchemaEmptyParserError or the budget allowed no parse at all.
C23_PollsUntilResult ==
    AdvertisedReturned =>
        LET made == 1..ret[1].polls
            found == {k \in made : Truthy(ParseAt(call.parses, k))}
        IN  /\ ret[1].raised = "none"
            /\ found = {} => ret[1].value = <<>>
            /\ found # {} =>
                   \E k \in found :
                       /\ \A j \in found : k <= j
                       /\ ParseAt(call.parses, k).kind = "routes"
                              => ret[1].value = ParseAt(call.parses, k).adv

-----------------------------------------------------------------------------
(* verify_ip_and_sid_in_segment_routing *)
(* address_sid_dict is the sequence of its (ip address, SID) pairs in the   *)
(* order of the dictionary.  A parse raises SchemaEmptyParserError (kind    *)
(* "raise") or returns an output (kind "dict") that holds, for the given    *)
(* algorithm and address family, the pairs local under local_prefix_sid and *)
(* the pairs connected under connected_prefix_sid_map.                      *)

\* found_local and found after the for loop: they are assigned anew for
\* each pair, so they tell of the last pair of the dictionary alone, and
\* stay None when the parse raised or the dictionary is empty
FoundAfterLoop(out, address_sid_dict) ==
    IF out.kind = "raise" \/ address_sid_dict = <<>> THEN FALSE
    ELSE /\ Last(address_sid_dict) \in out.local
         /\ Last(address_sid_dict) \in out.connected

\* if not expected_result and (not found_local or not found), for some pair
NotFoundInLoop(out, address_sid_dict) ==
    /\ out.kind # "raise"
    /\ \E k \in 1..Len(address_sid_dict) :
           \/ address_sid_dict[k] \notin out.local
           \/ address_sid_dict[k] \notin out.connected

RECURSIVE VerifySid(_, _, _, _, _, _, _)
VerifySid(parses, i, clock, max_time, check_interval, address_sid_dict, expected_result) ==
    IF ~(clock < max_time) THEN [value |-> FALSE, polls |-> i - 1]
    ELSE IF /\ ~expected_result
            /\ NotFoundInLoop(ParseAt(parses, i), address_sid_dict)
    THEN [value |-> expected_result, polls |-> i]
    ELSE IF /\ expected_result
            /\ FoundAfterLoop(ParseAt(parses, i), address_sid_dict)
    THEN [value |-> expected_result, polls |-> i]
    ELSE VerifySid(parses, i + 1, clock + ParseTicks + check_interval,
                   max_time, check_interval,
                   address_sid_dict, expected_result)

-----------------------------------------------------------------------------
(* One call of verify_ip_and_sid_in_segment_routing. *)

\* The most answers of the device that differ from the last one
MaxSidParses == 2

\* The largest max_time, in ticks
MaxSidTime == 4

SidPairs == {<<"10.4.1.1/32", 1>>, <<"10.4.1.2/32", 2>>}

\* The dictionaries over the two addresses, in either order of their keys
SidDicts ==
    {d \in SeqsUpTo(SidPairs, 2) : \A i, j \in 1..Len(d) : d[i] = d[j] => i = j}

SidOutputs ==
    [kind : {"raise"}, local : {{}}, connected : {{}}]
        \cup [kind : {"dict"}, local : SUBSET SidPairs,
              connected : SUBSET SidPairs]

InitSid ==
    /\ Idle
    /\ call \in [fn : {"verify_ip_and_sid_in_segment_routing"},
                 parses : SeqsUpTo(SidOutputs, MaxSidParses) \ {<<>>},
                 address_sid_dict : SidDicts,
                 expected_result : BOOLEAN,
                 max_time : {0, MaxSidTime},
                 check_interval : {2}]
    /\ ret = <<>>

verify_ip_and_sid_in_segment_routing ==
    /\ call.fn = "verify_ip_and_sid_in_segment_routing"
    /\ ret = <<>>
    /\ ret' = <<VerifySid(call.parses, 1, 0, call.max_time,
                          call.check_interval, call.address_sid_dict,
                          call.expected_result)>>
    /\ UNCHANGED <<rpcvars, call, objvars>>

SpecSid == InitSid /\ [][verify_ip_and_sid_in_segment_routing]_vars

SidReturned ==
    call.fn = "verify_ip_and_sid_in_segment_routing" /\ ret # <<>>

\* The pair is in the output of the k-th poll, under both keys
SidPresent(pair, k) ==
    /\ ParseAt(call.parses, k).kind = "dict"
    /\ pair \in ParseAt(call.parses, k).local
    /\ pair \in ParseAt(call.parses, k).connected

\* C24: with expected_result=True the function returns True only if one of
\* the polls it made found every pair of address_sid_dict in the parsed
\* output; if some pair was found by none of the polls it made, it returns
\* False.
C24_EveryPairInOnePoll ==
    (SidReturned /\ call.expected_result) =>
        LET pairs == {call.address_sid_dict[k] :
                          k \in 1..Len(call.address_sid_dict)}
            made == 1..ret[1].polls
        IN  /\ ret[1].value =>
                   \E k \in made : \A p \in pairs : SidPresent(p, k)
            /\ (\E p \in pairs : \A k \in made : ~SidPresent(p, k))
                   => ~ret[1].value

-----------------------------------------------------------------------------
(* get_bgp_neighbors_in_state *)
(* The parsed output is the sequence of its neighbors (of all vrfs, in the  *)
(* order of the dictionaries), each with the sequence of its address        *)
(* families and their state_pfxrcd.  State texts are sequences of tokens.   *)

\* template.format(arg): each replacement field {} becomes the argument
Format(template, arg) ==
    Concat([i \in 1..Len(template) |->
                IF template[i] = "{}" THEN arg ELSE <<template[i]>>])

\* str.lower()
Lower(s) ==
    [i \in 1..Len(s) |-> IF s[i] = "Idle" THEN "idle"
                         ELSE IF s[i] = "Active" THEN "active"
                         ELSE s[i]]

\* p1 = re.compile("".format(state)): the template is the empty string
StatePattern(state) == Format(<<>>, state)

\* p1.match(text), for a pattern without special characters
Match(p1, text) == IsPrefix(p1, text)

\* if in_state and m / elif not in_state and not m
Kept(in_state, m) == (in_state /\ m) \/ (~in_state /\ ~m)

\* The address families that are looked at for a neighbor
RECURSIVE FamiliesOf(_, _)
FamiliesOf(afs, address_family) ==
    IF afs = <<>> THEN <<>>
    ELSE IF address_family = "" \/ Head(afs).af = address_family
    THEN <<Head(afs)>> \o FamiliesOf(Tail(afs), address_family)
    ELSE FamiliesOf(Tail(afs), address_family)

\* neighbor_addresses.append(neighbor), once for each family kept
RECURSIVE AppendedFor(_, _, _, _)
AppendedFor(name, afs, p1, in_state) ==
    IF afs = <<>> THEN <<>>
    ELSE IF Kept(in_state, Match(p1, Strip(Lower(Head(afs).state_pfxrcd))))
    THEN <<name>> \o AppendedFor(name, Tail(afs), p1, in_state)
    ELSE AppendedFor(name, Tail(afs), p1, in_state)

RECURSIVE NeighborsKept(_, _, _, _)
NeighborsKept(neighbors, address_family, p1, in_state) ==
    IF neighbors = <<>> THEN <<>>
    ELSE AppendedFor(Head(neighbors).name,
                     FamiliesOf(Head(neighbors).afs, address_family),
                     p1, in_state)
             \o NeighborsKept(Tail(neighbors), address_family, p1, in_state)

\* out[...]["address_family"][address_family] of a neighbor without it
LacksFamily(neighbors, address_family) ==
    /\ address_family # ""
    /\ \E k \in 1..Len(neighbors) :
           FamiliesOf(neighbors[k].afs, address_family) = <<>>

NeighborsInState(out, address_family, state, in_state) ==
    IF out.kind = "raise" THEN [raised |-> "none", value |-> <<>>]
    ELSE IF LacksFamily(out.neighbors, address_family)
    THEN [raised |-> "KeyError", value |-> <<>>]
    ELSE [raised |-> "none",
          value |-> NeighborsKept(out.neighbors, address_family,
                                  StatePattern(state), in_state)]

-----------------------------------------------------------------------------
(* One call of get_bgp_neighbors_in_state, directly or through              *)
(* get_bgp_neighbors_not_in_state.                                          *)

\* The most neighbors of an output
MaxNeighbors == 2

AddressFamilies == {"ipv4 unicast", "vpnv4 unicast"}

PfxRcdTexts == {<<"Idle">>, <<"active", " ">>, <<"5">>}

FamilyLists ==
    {<<f>> : f \in [af : {"ipv4 unicast"}, state_pfxrcd : PfxRcdTexts]}
        \cup {<<f, g>> : f \in [af : {"ipv4 unicast"},
                                state_pfxrcd : PfxRcdTexts],
                         g \in [af : {"vpnv4 unicast"},
                                state_pfxrcd : PfxRcdTexts]}

NeighborLists ==
    {n \in SeqsUpTo([name : {"192.168.0.1", "192.168.0.2"},
                     afs : FamilyLists], MaxNeighbors) :
        \A i, j \in 1..Len(n) : n[i].name = n[j].name => i = j}

SummaryOutputs ==
    [kind : {"raise"}, neighbors : {<<>>}]
        \cup [kind : {"dict"}, neighbors : NeighborLists]

InitInState ==
    /\ Idle
    /\ call \in [fn : {"get_bgp_neighbors_in_state",
                       "get_bgp_neighbors_not_in_state"},
                 out : SummaryOutputs,
                 address_family : AddressFamilies \cup {""},
                 state : {<<"Idle">>, <<"active">>}]
    /\ ret = <<>>

get_bgp_neighbors_in_state ==
    /\ call.fn = "get_bgp_neighbors_in_state"
    /\ ret = <<>>
    /\ ret' = <<NeighborsInState(call.out, call.address_family,
                                 call.state, TRUE)>>
    /\ UNCHANGED <<rpcvars, call, objvars>>

get_bgp_neighbors_not_in_state ==
    /\ call.fn = "get_bgp_neighbors_not_in_state"
    /\ ret = <<>>
    /\ ret' = <<NeighborsInState(call.out, call.address_family,
                                 call.state, FALSE)>>
    /\ UNCHANGED <<rpcvars, call, objvars>>

NextInState == get_bgp_neighbors_in_state \/ get_bgp_neighbors_not_in_state

SpecInState == InitInState /\ [][NextInState]_vars

\* The neighbors of the output with a looked-at family whose state, in
\* lower case and stripped, is (want = TRUE) or is not (want = FALSE) the
\* given state in lower case
NeighborsWith(want) ==
    {call.out.neighbors[k].name :
        k \in {i \in 1..Len(call.out.neighbors) :
                  \E f \in EntriesOf(call.out.neighbors[i].afs) :
                      /\ call.address_family \in {"", f.af}
                      /\ (Strip(Lower(f.state_pfxrcd)) = Lower(call.state))
                             = want}}

\* C25: get_bgp_neighbors_in_state returns exactly the neighbors whose
\* state_pfxrcd matches the given state, and get_bgp_neighbors_not_in_state
\* exactly those whose state does not match it.
C25_ExactlyInState ==
    (ret # <<>> /\ call.fn \in {"get_bgp_neighbors_in_state",
                               "get_bgp_neighbors_not_in_state"}
        /\ call.out.kind = "dict" /\ ret[1].raised = "none")
        => EntriesOf(ret[1].value)
               = NeighborsWith(call.fn = "get_bgp_neighbors_in_state")

-----------------------------------------------------------------------------
(* CliVerify.before_rpc and CliVerify.after_rpc *)
(* cliv maps the names of the attributes of the instance to their values;   *)
(* a dictionary from indexes to lists is a function on the indexes it       *)
(* holds.  uut.config is the text that a show command returns at the        *)
(* moment, uut.sent the commands sent to the device so far, uut.rpcs the    *)
(* number of configuration changes made by the tests.                       *)

Has(obj, attr) == attr \in DOMAIN obj

\* d[k] = v
Put(d, k, v) == [x \in DOMAIN d \cup {k} |-> IF x = k THEN v ELSE d[x]]

\* d.get(k, [])
GetOrEmpty(d, k) == IF k \in DOMAIN d THEN d[k] ELSE <<>>

\* kind[kind.find('basic ') + 6:], for a kind that contains "basic "
ReplayType(kind) == SplitAfter(kind, "basic ")

\* if not cmd: cmd = 'show running'
ShowCommand(cmd) == IF cmd = <<>> THEN <<"show running">> ELSE cmd

\* The device after self.run_ssh(cmd, op='exec')
Sent(u, cmd) == [u EXCEPT !.sent = Append(@, ShowCommand(cmd))]

CliRaised(c, u) ==
    [cliv |-> c, uut |-> u, raised |-> TRUE, value |-> <<>>]

CliDone(c, u, value) ==
    [cliv |-> c, uut |-> u, raised |-> FALSE, value |-> value]

\* resp = self.run_ssh(cmd, op='exec')
\* self.common_cli_base[index] = self.cc.normalize(resp)
StoreBase(c, u, cmd, index) ==
    IF ~Has(c, "run_ssh") THEN CliRaised(c, u)
    ELSE IF ~Has(c, "common_cli_base") THEN CliRaised(c, Sent(u, cmd))
    ELSE CliDone([c EXCEPT !.common_cli_base =
                               Put(@, index, Normalize(u.config))],
                 Sent(u, cmd), <<>>)

BeforeRpc(c, u, cmd, index, replay_type) ==
    IF replay_type \in {<<"create">>, <<"delete">>}
    THEN StoreBase(c, u, cmd, index)
    ELSE IF replay_type \in {<<"merge">>, <<"remove">>, <<"replace">>}
    THEN IF ~Has(c, "common_cli_base") THEN CliRaised(c, u)
         ELSE IF index \in DOMAIN c.common_cli_base THEN CliDone(c, u, <<>>)
         ELSE StoreBase(c, u, cmd, index)
    ELSE CliDone(c, u, <<>>)

\* expect = added + removed; self.common_cli_diff[index] = expect;
\* return ''.join(expect)
StoreDiff(c, u, index, expect) ==
    IF ~Has(c, "common_cli_diff") THEN CliRaised(c, u)
    ELSE CliDone([c EXCEPT !.common_cli_diff = Put(@, index, expect)],
                 u, Concat(expect))

ExpectOf(d) == d.added \o d.removed

AfterRpc(c, u, cmd, index, replay_type) ==
    IF replay_type \in {<<"create">>, <<"replace">>, <<"delete">>}
    THEN IF ~Has(c, "common_cli_base") \/ ~Has(c, "run_ssh")
         THEN CliRaised(c, u)
         ELSE StoreDiff(c, Sent(u, cmd), index,
                        ExpectOf(Diffs(GetOrEmpty(c.common_cli_base, index),
                                       Normalize(u.config))))
    ELSE IF replay_type \in {<<"merge">>, <<"remove">>}
    THEN IF ~Has(c, "common_cli_diff") THEN CliRaised(c, u)
         ELSE CliDone(c, u, Concat(GetOrEmpty(c.common_cli_diff, index)))
    ELSE CliDone(c, u, <<>>)

-----------------------------------------------------------------------------
(* The tests of a suite: before_rpc, the configuration change of the test,  *)
(* after_rpc, for each test of call.tests in turn.                          *)

\* The most tests of a sequence in any order
MaxTests == 2

ReplayKinds ==
    {<<"basic ", k>> : k \in {"create", "merge", "replace", "delete",
                              "remove", "get"}}

SuiteTests ==
    [kind : ReplayKinds, counter : {<<"1">>},
     xpath : {<<"/", "a">>, <<"/", "b">>}, cmd : {<<>>}]

SuiteTest(k, xpath, cmd) ==
    [kind |-> <<"basic ", k>>, counter |-> <<"1">>, xpath |-> xpath,
     cmd |-> cmd]

\* The five tests of one suite in their order
InOrder ==
    <<SuiteTest("create", <<"/", "a">>, <<>>),
      SuiteTest("merge", <<"/", "a">>, <<>>),
      SuiteTest("replace", <<"/", "a">>, <<>>),
      SuiteTest("delete", <<"/", "a">>, <<>>),
      SuiteTest("remove", <<"/", "a">>, <<>>)>>

\* ... and with a test of another suite after the k-th of them
WithOther(k) ==
    SubSeq(InOrder, 1, k)
        \o <<SuiteTest("create", <<"/", "b">>, <<"show run">>)>>
        \o SubSeq(InOrder, k + 1, 5)

TestLists ==
    SeqsUpTo(SuiteTests, MaxTests) \cup {InOrder}
        \cup {WithOther(k) : k \in 1..4}

DeviceTexts ==
    {<<"x">>, <<"x", "\n", "y">>, <<"!", " ", "x", "\n", "y">>}

\* The instance as __init__ leaves it
Constructed ==
    [connection |-> "cli", uut |-> "uut", log |-> "logger", cmd |-> "",
     returns |-> "", operation |-> "execute", cc |-> "CiscoConfig"]

\* The instance after its user has set on it the three attributes that the
\* two methods use and __init__ does not set
Equipped ==
    [connection |-> "cli", uut |-> "uut", log |-> "logger", cmd |-> "",
     returns |-> "", operation |-> "execute", cc |-> "CiscoConfig",
     run_ssh |-> "method", common_cli_base |-> <<>>,
     common_cli_diff |-> <<>>]

InitCli ==
    /\ RpcIdle
    /\ call \in [fn : {"suite"}, tests : TestLists]
    /\ ret = <<>>
    /\ cliv \in {Constructed, Equipped}
    /\ uut \in [config : DeviceTexts, sent : {<<>>}, rpcs : {0}]

\* The test whose calls are being made
TestNow == call.tests[(Len(ret) \div 2) + 1]

IndexNow == TestNow.counter \o TestNow.xpath

CliCalled(fn, out) ==
    /\ cliv' = out.cliv
    /\ uut' = out.uut
    /\ ret' = Append(ret, [fn |-> fn, raised |-> out.raised,
                           value |-> out.value])

before_rpc ==
    /\ call.fn = "suite"
    /\ Len(ret) < 2 * Len(call.tests)
    /\ Len(ret) % 2 = 0
    /\ CliCalled("before_rpc",
                 BeforeRpc(cliv, uut, TestNow.cmd, IndexNow,
                           ReplayType(TestNow.kind)))
    /\ UNCHANGED <<rpcvars, call>>

\* The test changes the configuration of the device
rpc ==
    /\ call.fn = "suite"
    /\ Len(ret) % 2 = 1
    /\ uut.rpcs < (Len(ret) + 1) \div 2
    /\ \E cfg \in DeviceTexts :
           uut' = [uut EXCEPT !.config = cfg, !.rpcs = (Len(ret) + 1) \div 2]
    /\ UNCHANGED <<rpcvars, call, ret, cliv>>

after_rpc ==
    /\ call.fn = "suite"
    /\ Len(ret) % 2 = 1
    /\ CliCalled("after_rpc",
                 AfterRpc(cliv, uut, TestNow.cmd, IndexNow,
                          ReplayType(TestNow.kind)))
    /\ UNCHANGED <<rpcvars, call>>

NextCli == before_rpc \/ rpc \/ after_rpc

SpecCli == InitCli /\ [][NextCli]_vars

\* The step is a call of the method fn
CliStep(fn) ==
    /\ call.fn = "suite"
    /\ Len(ret') = Len(ret) + 1
    /\ Last(ret').fn = fn

\* The step sends one show command to the device
Fetches == Len(uut'.sent) = Len(uut.sent) + 1

\* C26: before_rpc for create and delete fetches a fresh pre-config from
\* the device and stores its normal form under common_cli_base[index];
\* for merge, replace and remove it leaves the stored base as it is and
\* sends nothing to the device, and fetches only when no base is stored
\* for the index; it never changes the base stored under another index
\* nor any stored diff.
C26_BasePolicy ==
    [][CliStep("before_rpc") =>
           /\ ~Last(ret').raised
           /\ Has(cliv, "common_cli_base") /\ Has(cliv', "common_cli_base")
           /\ ReplayType(TestNow.kind) \in {<<"create">>, <<"delete">>}
                  => /\ Fetches
                     /\ cliv'.common_cli_base[IndexNow]
                            = Normalize(uut.config)
           /\ ReplayType(TestNow.kind)
                      \in {<<"merge">>, <<"replace">>, <<"remove">>}
                  => IF IndexNow \in DOMAIN cliv.common_cli_base
                     THEN /\ uut'.sent = uut.sent
                          /\ cliv'.common_cli_base[IndexNow]
                                 = cliv.common_cli_base[IndexNow]
                     ELSE /\ Fetches
                          /\ cliv'.common_cli_base[IndexNow]
                                 = Normalize(uut.config)
           /\ \A j \in (DOMAIN cliv.common_cli_base
                            \cup DOMAIN cliv'.common_cli_base) \ {IndexNow} :
                  /\ j \in DOMAIN cliv.common_cli_base
                  /\ j \in DOMAIN cliv'.common_cli_base
                  /\ cliv'.common_cli_base[j] = cliv.common_cli_base[j]
           /\ Has(cliv, "common_cli_diff") /\ Has(cliv', "common_cli_diff")
           /\ cliv'.common_cli_diff = cliv.common_cli_diff]_vars

\* C27: after_rpc for create, replace and delete computes the diffs of the
\* stored base and the fresh normalized post-config, stores added followed
\* by removed under common_cli_diff[index] and returns their concatenation;
\* for merge and remove it sends nothing to the device and returns the
\* diff last stored for the index, so that in the order create, merge,
\* replace, delete, remove the merge test returns what the create test
\* returned and the remove test what the delete test returned.
C27_DiffPolicy ==
    [][CliStep("after_rpc") =>
           /\ ~Last(ret').raised
           /\ Has(cliv, "common_cli_base")
           /\ Has(cliv, "common_cli_diff") /\ Has(cliv', "common_cli_diff")
           /\ ReplayType(TestNow.kind)
                      \in {<<"create">>, <<"replace">>, <<"delete">>}
                  => /\ Fetches
                     /\ cliv'.common_cli_diff[IndexNow]
                            = ExpectOf(Diffs(
                                  GetOrEmpty(cliv.common_cli_base, IndexNow),
                                  Normalize(uut.config)))
                     /\ Last(ret').value
                            = Concat(cliv'.common_cli_diff[IndexNow])
           /\ ReplayType(TestNow.kind) \in {<<"merge">>, <<"remove">>}
                  => /\ uut'.sent = uut.sent
                     /\ cliv'.common_cli_diff = cliv.common_cli_diff
                     /\ Last(ret').value
                            = Concat(GetOrEmpty(cliv.common_cli_diff,
                                                IndexNow))
           /\ (call.tests = InOrder /\ Len(ret') \in {4, 10})
                  => Last(ret').value = ret'[Len(ret') - 2].value]_vars

-----------------------------------------------------------------------------
(* try_lock and netconf_send *)
(* uut.held is the set of the datastores that the session holds the lock    *)
(* of, uut.log the operations sent to the device, each with its target and  *)
(* with holding: whether the session holds the lock of the target once the  *)
(* operation is sent; uut.connected tells whether the session is open.     *)
(* The replies of the device to the lock attempts of one call of try_lock   *)
(* are a sequence, its last reply repeated: "ok" or the error tag.          *)

LockRetryErrors ==
    {"lock-denied", "resource-denied", "in-use", "operation-failed"}

\* for counter in range(1, timer+1): the name sleep is not defined in the
\* module, calling it raises NameError
RECURSIVE TryLock(_, _, _)
TryLock(replies, counter, timer) ==
    IF counter > timer
    THEN [value |-> FALSE, raised |-> FALSE, attempts |-> counter - 1]
    ELSE IF ParseAt(replies, counter) = "ok"
    THEN [value |-> TRUE, raised |-> FALSE, attempts |-> counter]
    ELSE IF ParseAt(replies, counter) \notin LockRetryErrors
    THEN [value |-> FALSE, raised |-> FALSE, attempts |-> counter]
    ELSE IF counter < timer
    THEN [value |-> FALSE, raised |-> TRUE, attempts |-> counter]
    ELSE TryLock(replies, counter + 1, timer)

\* The device after the lock attempts of a call of try_lock
LockSent(u, target, replies, out) ==
    [u EXCEPT !.held = IF out.value THEN @ \cup {target} ELSE @,
              !.log = @ \o [i \in 1..out.attempts |->
                                [op |-> "lock", target |-> target,
                                 holding |-> ParseAt(replies, i) = "ok"]]]

\* The device after an operation other than lock and unlock
OpSent(u, op, target) ==
    [u EXCEPT !.log = Append(@, [op |-> op, target |-> target,
                                 holding |-> target \in u.held])]

\* uut.nc.unlock(target=...)
UnlockSent(u, target) ==
    [u EXCEPT !.held = @ \ {target},
              !.log = Append(@, [op |-> "unlock", target |-> target,
                                 holding |-> FALSE])]

TargetOf(kwargs) == IF Has(kwargs, "target") THEN kwargs.target ELSE ""

\* except Exception: if lock: uut.nc.unlock(target=kwargs['target'])
Excepted(u, kwargs, lock) ==
    IF ~lock THEN [uut |-> u, appended |-> "traceback"]
    ELSE IF ~Has(kwargs, "target") THEN [uut |-> u, appended |-> "KeyError"]
    ELSE [uut |-> UnlockSent(u, kwargs.target), appended |-> "traceback"]

\* if ret.ok: result.append((nc_op, str(ret))), else the xml of the reply
Appended(u, outcome) ==
    [uut |-> u, appended |-> IF outcome = "ok" THEN "reply" ELSE "xml"]

\* ret = uut.nc.edit_config(**kwargs); if lock: uut.nc.unlock(...)
EditConfig(u, kwargs, lock, outcome) ==
    IF outcome = "raise" THEN Excepted(u, kwargs, lock)
    ELSE IF lock THEN Appended(UnlockSent(u, kwargs.target), outcome)
    ELSE Appended(u, outcome)

\* if lock: try_lock(uut, kwargs['target'], timer=lock_retry): the value
\* that try_lock returns is not looked at
EditAfterLock(u, kwargs, lock, out, outcome) ==
    IF out.raised THEN Excepted(u, kwargs, lock)
    ELSE EditConfig(OpSent(u, "edit_config", kwargs.target),
                    kwargs, lock, outcome)

NotTried == [value |-> FALSE, raised |-> FALSE, attempts |-> 0]

LockFor(lock, replies, lock_retry) ==
    IF lock THEN TryLock(replies, 1, lock_retry) ELSE NotTried

\* One iteration of for nc_op, kwargs in rpcs
Iteration(u, nc_op, kwargs, lock, out, replies, outcome) ==
    IF nc_op = "edit-config"
    THEN EditAfterLock(LockSent(u, TargetOf(kwargs), replies, out),
                       kwargs, lock, out, outcome)
    ELSE IF nc_op = "rpc"
    THEN IF outcome = "raise"
         THEN Excepted(OpSent(u, "request", ""), kwargs, lock)
         ELSE [uut |-> OpSent(u, "request", ""), appended |-> "returned"]
    ELSE IF outcome = "raise"
    THEN Excepted(OpSent(u, nc_op, ""), kwargs, lock)
    ELSE Appended(OpSent(u, nc_op, ""), outcome)

-----------------------------------------------------------------------------
(* One call of try_lock. *)

\* The largest retry counter
MaxTimer == 3

LockReplies == {"ok", "in-use", "lock-denied", "access-denied"}

Datastores == {"running", "candidate"}

NoSession == [connected |-> TRUE, held |-> {}, log |-> <<>>]

InitLock ==
    /\ RpcIdle
    /\ cliv = <<>>
    /\ uut = NoSession
    /\ call \in [fn : {"try_lock"}, target : Datastores,
                 timer : 0..MaxTimer,
                 replies : SeqsUpTo(LockReplies, MaxTimer) \ {<<>>}]
    /\ ret = <<>>

try_lock ==
    /\ call.fn = "try_lock"
    /\ ret = <<>>
    /\ ret' = <<TryLock(call.replies, 1, call.timer)>>
    /\ uut' = LockSent(uut, call.target, call.replies,
                       TryLock(call.replies, 1, call.timer))
    /\ UNCHANGED <<rpcvars, call, cliv>>

SpecLock == InitLock /\ [][try_lock]_vars

\* C28: try_lock makes at most timer lock attempts; it returns True as soon
\* as an attempt succeeds; while the attempts fail with lock-denied,
\* resource-denied, in-use or operation-failed and attempts remain it
\* retries; it returns False at the first failure with another error tag or
\* once all timer attempts have failed with retryable errors; it does not
\* raise.
C28_LockAttempts ==
    (call.fn = "try_lock" /\ ret # <<>>) =>
        LET n == ret[1].attempts
            retryable(i) == ParseAt(call.replies, i) \in LockRetryErrors
        IN  /\ ~ret[1].raised
            /\ n <= call.timer
            /\ \A i \in 1..(n - 1) : retryable(i)
            /\ ret[1].value <=> (n >= 1 /\ ParseAt(call.replies, n) = "ok")
            /\ ~ret[1].value =>
                   \/ n = call.timer /\ \A i \in 1..n : retryable(i)
                   \/ /\ n >= 1
                      /\ ParseAt(call.replies, n) # "ok"
                      /\ ~retryable(n)

-----------------------------------------------------------------------------
(* One call of netconf_send, an iteration of its loop at a time. *)

\* The most operations of a call
MaxRpcs == 2

RpcList ==
    SeqsUpTo([nc_op : {"edit-config"}, kwargs : [target : Datastores]]
                 \cup [nc_op : {"commit", "get", "rpc"},
                       kwargs : [filter : {"f"}]],
             MaxRpcs) \ {<<>>}

LockScripts == {<<"ok">>, <<"in-use">>, <<"in-use", "ok">>,
                <<"access-denied">>}

InitSend ==
    /\ RpcIdle
    /\ cliv = <<>>
    /\ uut \in [connected : BOOLEAN, held : {{}}, log : {<<>>}]
    /\ call \in [fn : {"netconf_send"}, rpcs : RpcList, lock : BOOLEAN,
                 lock_retry : 1..2]
    /\ ret = <<>>

\* if not uut.nc.connected: uut.nc.connect(), before the loop
IterationDone(out) ==
    /\ uut' = [out.uut EXCEPT !.connected = TRUE]
    /\ ret' = Append(ret, out.appended)

netconf_send ==
    /\ call.fn = "netconf_send"
    /\ Len(ret) < Len(call.rpcs)
    /\ IF ret = <<>> THEN TRUE ELSE Last(ret) \notin {"returned", "KeyError"}
    /\ \E replies \in LockScripts, outcome \in {"ok", "error", "raise"} :
           IterationDone(
               Iteration(uut, call.rpcs[Len(ret) + 1].nc_op,
                         call.rpcs[Len(ret) + 1].kwargs, call.lock,
                         LockFor(call.lock, replies, call.lock_retry),
                         replies, outcome))
    /\ UNCHANGED <<rpcvars, call, cliv>>

SpecSend == InitSend /\ [][netconf_send]_vars

\* C30: with lock=True every edit_config is sent while the session holds the
\* lock of its target, and no lock is held once the iteration that took it
\* is over, also when edit_config raised.
C30_EditUnderLock ==
    (call.fn = "netconf_send" /\ call.lock) =>
        /\ \A k \in 1..Len(uut.log) :
               uut.log[k].op = "edit_config" => uut.log[k].holding
        /\ uut.held = {}

\* C29: diffs(base, after) returns ([], []) only if every line occurs as
\* often in base as in after; a line whose number of occurrences differs
\* is mentioned by at least one entry of added or removed.
C29_RepetitionReported ==
    DiffsReturned =>
        \A line \in DiffLines :
            Count(call.cli_base, line) # Count(call.cli_after, line)
                => \E e \in EntriesOf(ret[1].added)
                               \cup EntriesOf(ret[1].removed) :
                       line \in EntriesOf(e)

=============================================================================
